---- MODULE Spec2Model ----
(***************************************************************************)
(* A model of ipam-api: the HTTP request pipeline (server.go), the policy  *)
(* matcher (config.go) and the address state manager with its link-layer   *)
(* announcer (ipam.go).                                                    *)
(*                                                                         *)
(* IP addresses are scaled down: an address is a family and an integer of  *)
(* V4Bits or V6Bits bits (for the 32 and 128 bits of the real families).   *)
(* Texts are sequences of one-character strings where they are matched     *)
(* (interface names, patterns) and plain strings elsewhere.                *)
(***************************************************************************)
EXTENDS Integers, Sequences, FiniteSets, TLC

VARIABLES policies, links, addrs, sent, slot, probe

vars == <<policies, links, addrs, sent, slot, probe>>

(***************************************************************************)
(* Bounds of the model.                                                    *)
(***************************************************************************)
\* number of bits of a (scaled down) IPv4 address
V4Bits == 4
\* number of bits of a (scaled down) IPv6 address
V6Bits == 6

(***************************************************************************)
(* net.IP, net.IPMask, net.IPNet                                           *)
(***************************************************************************)
Pow2(n) == 2 ^ n

\* bit length of the addresses of a family (net.IPv4len, net.IPv6len)
IPBits(fam) == IF fam = "v4" THEN V4Bits ELSE V6Bits

\* net.CIDRMask(ones, bits): ones 1-bits followed by 0-bits
CIDRMask(ones, bits) == [i \in 1..bits |-> IF i <= ones THEN 1 ELSE 0]

\* net.IPMask.String(): the digits of the mask, one per bit here
MaskString(mask) == [i \in 1..Len(mask) |-> IF mask[i] = 1 THEN "f" ELSE "0"]

\* net.IPMask.Size(): the number of leading ones
MaskSize(mask) == Cardinality({i \in 1..Len(mask) : mask[i] = 1})

\* bit i (1 = most significant) of val, an integer of w bits
BitAt(val, w, i) == (val \div Pow2(w - i)) % 2

RECURSIVE AndBits(_, _, _)
\* the integer whose bits are those of val and-ed with mask, from bit i on
AndBits(val, mask, i) ==
    IF i > Len(mask) THEN 0
    ELSE mask[i] * BitAt(val, Len(mask), i) * Pow2(Len(mask) - i)
         + AndBits(val, mask, i + 1)

\* the result of net.IP.Mask when the lengths of address and mask differ
NilIP == [fam |-> "nil", val |-> 0]

\* net.IP.Mask(mask)
IPMask(ip, mask) ==
    IF ip.fam \notin {"v4", "v6"} \/ Len(mask) # IPBits(ip.fam) THEN NilIP
    ELSE [fam |-> ip.fam, val |-> AndBits(ip.val, mask, 1)]

\* net.IP.Equal
IPEqual(x, y) == x.fam = y.fam /\ x.val = y.val

(***************************************************************************)
(* Address texts.  A text is its parts: the host part (an address of a     *)
(* family, or something that is no address: family "bad"), whether a slash *)
(* follows, and the number after the slash; form says whether host and     *)
(* number are spelled as Go prints them ("canonical") or in another way    *)
(* that reads the same (upper-case or uncompressed IPv6, a prefix with a   *)
(* leading zero); rest holds the words that follow after spaces, <<>> when *)
(* the text has no space.  The empty string is EmptyText.                  *)
(***************************************************************************)
EmptyText ==
    [host |-> [fam |-> "empty", val |-> 0], slash |-> FALSE, prefix |-> 0,
     form |-> "canonical", rest |-> <<>>]
Text(fam, val, prefix) ==
    [host |-> [fam |-> fam, val |-> val], slash |-> TRUE, prefix |-> prefix,
     form |-> "canonical", rest |-> <<>>]
NoSlashText(fam, val) ==
    [host |-> [fam |-> fam, val |-> val], slash |-> FALSE, prefix |-> 0,
     form |-> "canonical", rest |-> <<>>]

NoNet == [IP |-> NilIP, Mask |-> <<>>]

\* net.ParseCIDR: the address, its network and the error; a text with a
\* space in it is no CIDR
ParseCIDR(s) ==
    IF \/ s.rest # <<>>
       \/ ~s.slash
       \/ s.host.fam \notin {"v4", "v6"}
       \/ s.host.val \notin 0..(Pow2(IPBits(s.host.fam)) - 1)
       \/ s.prefix \notin 0..IPBits(s.host.fam)
    THEN [ip |-> NilIP, net |-> NoNet, err |-> "invalid CIDR address"]
    ELSE LET m == CIDRMask(s.prefix, IPBits(s.host.fam))
         IN  [ip |-> s.host,
              net |-> [IP |-> IPMask(s.host, m), Mask |-> m],
              err |-> ""]

\* netlink.ParseAddr: the text is split at its spaces, the first word is
\* read as a CIDR and the second, if there is one, is the label; the
\* address keeps its host bits
ParseAddr(s) ==
    LET c == ParseCIDR([s EXCEPT !.rest = <<>>])
    IN  IF c.err # "" THEN [addr |-> NoNet, label |-> "", err |-> c.err]
        ELSE [addr |-> [IP |-> c.ip, Mask |-> c.net.Mask],
              label |-> IF s.rest # <<>> THEN s.rest[1] ELSE "",
              err |-> ""]

\* ParseAddress, lines 27-34
ParseAddress(s) == ParseAddr(s)

\* netlink.Addr.String: the address with its prefix length as Go prints
\* them, a space and the label, with the space trimmed when the label is
\* empty
AddrString(address, label) ==
    [host |-> address.IP, slash |-> TRUE, prefix |-> MaskSize(address.Mask),
     form |-> "canonical", rest |-> IF label = "" THEN <<>> ELSE <<label>>]

(***************************************************************************)
(* regexp.Regexp.  A pattern is [bol, body, eol]: body is a sequence of    *)
(* literal characters and ".*" atoms, bol and eol say whether the pattern  *)
(* starts with ^ and ends with $.                                          *)
(***************************************************************************)
RECURSIVE MatchHere(_, _)
\* whether body matches the whole of s
MatchHere(body, s) ==
    IF body = <<>> THEN s = <<>>
    ELSE IF Head(body) = ".*"
         THEN \E k \in 0..Len(s) : MatchHere(Tail(body), SubSeq(s, k + 1, Len(s)))
         ELSE s # <<>> /\ Head(s) = Head(body) /\ MatchHere(Tail(body), Tail(s))

\* MatchString asking for a match of the whole of s
MatchStringAnchored(re, s) == MatchHere(re.body, s)

\* regexp.MatchString: whether s contains a match of the pattern
MatchString(re, s) ==
    \E i \in 0..Len(s) : \E j \in i..Len(s) :
        /\ re.bol => i = 0
        /\ re.eol => j = Len(s)
        /\ MatchHere(re.body, SubSeq(s, i + 1, j))

(***************************************************************************)
(* config.go: address policies                                             *)
(***************************************************************************)
\* IPNetwork.UnmarshalJSON keeps the network of net.ParseCIDR; the pattern is
\* compiled as it is written
Policy(network, pattern) ==
    [IPNetwork |-> ParseCIDR(network).net, InterfaceNameRegex |-> pattern]

\* Allows by containment: the address lies in the network of the policy
AllowsContainment(ap, interfaceName, address) ==
    /\ MatchString(ap.InterfaceNameRegex, interfaceName)
    /\ Len(ap.IPNetwork.Mask) = Len(address.Mask)
    /\ MaskSize(ap.IPNetwork.Mask) <= MaskSize(address.Mask)
    /\ IPEqual(IPMask(ap.IPNetwork.IP, ap.IPNetwork.Mask),
               IPMask(address.IP, ap.IPNetwork.Mask))

\* AddressPolicy.Allows
Allows(ap, interfaceName, address) ==
    /\ MatchString(ap.InterfaceNameRegex, interfaceName)
    /\ MaskString(ap.IPNetwork.Mask) = MaskString(address.Mask)
    /\ IPEqual(IPMask(ap.IPNetwork.IP, ap.IPNetwork.Mask),
               IPMask(address.IP, address.Mask))

(***************************************************************************)
(* config.go: reading the configuration.                                   *)
(*                                                                         *)
(* A path is [abs, parts]: whether it starts at the root, and its elements *)
(* in order ("." and ".." among them); the empty string is EmptyPath.  A   *)
(* JSON document is a record of fields, each [present, value]; a field     *)
(* that is absent leaves the zero value of its Go type.                    *)
(***************************************************************************)
EmptyPath == [abs |-> FALSE, parts |-> <<>>]

\* filepath.IsAbs
IsAbs(path) == path.abs

RECURSIVE CleanParts(_, _, _)
\* filepath.Clean on the elements of a path: "." is dropped, ".." takes the
\* element before it away, at the root it is dropped, at the start of a
\* relative path it stays
CleanParts(parts, out, abs) ==
    IF parts = <<>> THEN out
    ELSE IF Head(parts) = "." THEN CleanParts(Tail(parts), out, abs)
    ELSE IF Head(parts) = ".."
         THEN IF out # <<>> /\ out[Len(out)] # ".."
              THEN CleanParts(Tail(parts), SubSeq(out, 1, Len(out) - 1), abs)
              ELSE IF abs THEN CleanParts(Tail(parts), out, abs)
              ELSE CleanParts(Tail(parts), Append(out, ".."), abs)
    ELSE CleanParts(Tail(parts), Append(out, Head(parts)), abs)

\* filepath.Clean: the empty relative path becomes "."
Clean(path) ==
    LET c == CleanParts(path.parts, <<>>, path.abs)
    IN  IF ~path.abs /\ c = <<>> THEN [abs |-> FALSE, parts |-> <<".">>]
        ELSE [abs |-> path.abs, parts |-> c]

\* filepath.Join of two paths: empty ones are left out, the rest is put
\* together with a separator and cleaned
Join(a, b) ==
    IF a = EmptyPath /\ b = EmptyPath THEN EmptyPath
    ELSE IF a = EmptyPath THEN Clean(b)
    ELSE Clean([abs |-> a.abs, parts |-> a.parts \o b.parts])

\* filepath.Dir: the path without its last element, cleaned
Dir(path) ==
    IF path.parts = <<>> THEN Clean(path)
    ELSE Clean([abs |-> path.abs,
                parts |-> SubSeq(path.parts, 1, Len(path.parts) - 1)])

\* filepath.Abs with the working directory cwd
Abs(cwd, path) == IF IsAbs(path) THEN Clean(path) ELSE Join(cwd, path)

\* AbsPath joining the path to the prefix whether it is absolute or not
AbsPathAlwaysJoined(pathPrefix, path) == Clean(Join(pathPrefix, path))

\* AbsPath, lines 76-82
AbsPath(pathPrefix, path) ==
    IF ~IsAbs(path) THEN Clean(Join(pathPrefix, path)) ELSE path

\* a field of a JSON document
Absent(zero) == [present |-> FALSE, value |-> zero]
Field(v) == [present |-> TRUE, value |-> v]

\* the zero value of regexp.Regexp: nothing compiled
NilRegexp == [bol |-> FALSE, body |-> <<>>, eol |-> FALSE, prog |-> "nil"]

\* regexp.Compile: a repetition operator with nothing before it is an error
Compile(s) ==
    IF s.body # <<>> /\ Head(s.body) = "*"
    THEN [re |-> NilRegexp,
          err |-> "error parsing regexp: missing argument to repetition operator"]
    ELSE [re |-> s, err |-> ""]

\* IPNetwork.UnmarshalJSON, lines 35-50; it is called for a field that is
\* present only
UnmarshalIPNetwork(field) ==
    IF ~field.present THEN [net |-> NoNet, err |-> ""]
    ELSE [net |-> ParseCIDR(field.value).net, err |-> ParseCIDR(field.value).err]

\* Regexp.UnmarshalJSON, lines 58-73; it is called for a field that is
\* present only
UnmarshalRegexp(field) ==
    IF ~field.present THEN [re |-> NilRegexp, err |-> ""]
    ELSE Compile(field.value)

\* json.Unmarshal into an AddressPolicy: the network, then the pattern
UnmarshalPolicy(p) ==
    LET n == UnmarshalIPNetwork(p.ip_network)
        r == UnmarshalRegexp(p.interface_name_regex)
    IN  [policy |-> [IPNetwork |-> n.net, InterfaceNameRegex |-> r.re],
         err |-> IF n.err # "" THEN n.err ELSE r.err]

\* json.Unmarshal into a Config, line 106: the error is that of the first
\* policy that has one
UnmarshalConfig(doc) ==
    LET ps == [i \in 1..Len(doc.address_policies.value) |->
                  UnmarshalPolicy(doc.address_policies.value[i])]
        bad == {i \in 1..Len(ps) : ps[i].err # ""}
    IN  [config |-> [Port |-> doc.port.value,
                     ClientCACertificatePath |-> doc.client_ca_certificate_path.value,
                     ServerCertificatePath |-> doc.server_certificate_path.value,
                     ServerKeyPath |-> doc.server_key_path.value,
                     AddressPolicies |-> [i \in 1..Len(ps) |-> ps[i].policy]],
         err |-> IF bad = {} THEN ""
                 ELSE ps[CHOOSE i \in bad : \A j \in bad : i <= j].err]

\* Validate with the policies looked at first
ValidatePoliciesFirst(c) ==
    IF Len(c.AddressPolicies) = 0
    THEN "The configuration is missing address policies"
    ELSE IF c.Port = 0 THEN "The configuration is missing a port number"
    ELSE IF c.ClientCACertificatePath = EmptyPath
    THEN "The configuration is missing a path to the client ca certificate"
    ELSE IF c.ServerCertificatePath = EmptyPath
    THEN "The configuration is missing a path to the server certificate"
    ELSE IF c.ServerKeyPath = EmptyPath
    THEN "The configuration is missing a path to the server key"
    ELSE ""

\* Config.Validate, lines 125-147
Validate(c) ==
    IF c.Port = 0 THEN "The configuration is missing a port number"
    ELSE IF c.ClientCACertificatePath = EmptyPath
    THEN "The configuration is missing a path to the client ca certificate"
    ELSE IF c.ServerCertificatePath = EmptyPath
    THEN "The configuration is missing a path to the server certificate"
    ELSE IF c.ServerKeyPath = EmptyPath
    THEN "The configuration is missing a path to the server key"
    ELSE IF Len(c.AddressPolicies) = 0
    THEN "The configuration is missing address policies"
    ELSE ""

NoConfig == [Port |-> 0, ClientCACertificatePath |-> EmptyPath,
             ServerCertificatePath |-> EmptyPath, ServerKeyPath |-> EmptyPath,
             AddressPolicies |-> <<>>]

\* ReadConfiguration, lines 85-122: cwd is the working directory, exists
\* whether the file can be opened, doc what it holds
ReadConfiguration(cwd, configFilePath, exists, doc) ==
    LET absConfigFilePath == IF ~IsAbs(configFilePath) THEN Abs(cwd, configFilePath)
                             ELSE configFilePath
        u == UnmarshalConfig(doc)
        configDirectoryPath == Dir(absConfigFilePath)
    IN  IF ~exists THEN [config |-> NoConfig, err |-> "no such file or directory"]
        ELSE IF u.err # "" THEN [config |-> NoConfig, err |-> u.err]
        ELSE IF Validate(u.config) # ""
        THEN [config |-> NoConfig, err |-> Validate(u.config)]
        ELSE [config |->
                [u.config EXCEPT
                   !.ClientCACertificatePath = AbsPath(configDirectoryPath, @),
                   !.ServerCertificatePath = AbsPath(configDirectoryPath, @),
                   !.ServerKeyPath = AbsPath(configDirectoryPath, @)],
              err |-> ""]

(***************************************************************************)
(* server.go: requests and responses.  A request is                        *)
(*   [cert, path, method, ctype, body]                                     *)
(* cert: "none" (no client certificate), "invalid" (one that fails         *)
(* verification) or "valid"; body: [kind, address, interface_name] with    *)
(* kind "nil" (r.Body == nil), "empty" (no bytes), "malformed" (bytes that *)
(* are no JSON object) or "json".                                          *)
(***************************************************************************)
StatusOK == 200
StatusBadRequest == 400
StatusUnauthorized == 401
StatusForbidden == 403
StatusNotFound == 404
StatusMethodNotAllowed == 405
StatusInternalServerError == 500

NoResp == [status |-> 0, body |-> ""]
NoLink == [Name |-> <<>>, Index |-> 0, HardwareAddr |-> <<>>]

\* http.Error: the message and a newline
HttpError(msg, code) == [status |-> code, body |-> msg \o "\n"]

\* fmt.Fprintf(w, msg) on a fresh response: status 200
Fprintf(msg) == [status |-> StatusOK, body |-> msg]

\* a request answered without a call of AddAddress or DeleteAddress
Answered(t, resp) ==
    [resp |-> resp, trace |-> t, action |-> "", address |-> NoNet,
     link |-> NoLink, call |-> FALSE]

\* LinkByName
LinkByName(lks, interfaceName) ==
    IF \E l \in lks : l.Name = interfaceName
    THEN [link |-> CHOOSE l \in lks : l.Name = interfaceName, err |-> ""]
    ELSE [link |-> NoLink, err |-> "Link not found"]

\* json.NewDecoder(r.Body).Decode(&rd)
Decode(body) ==
    IF body.kind = "empty"
    THEN [rd |-> [Address |-> EmptyText, InterfaceName |-> <<>>], err |-> "EOF"]
    ELSE IF body.kind = "malformed"
    THEN [rd |-> [Address |-> EmptyText, InterfaceName |-> <<>>],
          err |-> "invalid character"]
    ELSE [rd |-> [Address |-> body.address, InterfaceName |-> body.interface_name],
          err |-> ""]

\* handleRequest, lines 173-183: the link is resolved, then Add or Delete runs
ResolveLink(lks, requestAction, rd, address, t) ==
    LET r == LinkByName(lks, rd.InterfaceName)
    IN  IF r.err # ""
        THEN Answered(Append(t, "link"),
                      HttpError("Failed to retreive interface: " \o r.err,
                                StatusInternalServerError))
        ELSE [resp |-> NoResp, trace |-> Append(t, "link"),
              action |-> requestAction, address |-> address,
              link |-> r.link, call |-> TRUE]

\* CheckPolicy deciding on the first policy of the list alone
CheckPolicyFirstOnly(pol, lks, requestAction, rd, address, t) ==
    LET policyPassed == Len(pol) > 0 /\ Allows(pol[1], rd.InterfaceName, address)
    IN  IF ~policyPassed
        THEN Answered(Append(t, "policy"),
                      HttpError("Rejected cidr address for interface, because no matching policy was found",
                                StatusForbidden))
        ELSE ResolveLink(lks, requestAction, rd, address, Append(t, "policy"))

\* CheckPolicy without the rejection: the request goes on whatever the
\* policies say
CheckPolicyIgnored(pol, lks, requestAction, rd, address, t) ==
    ResolveLink(lks, requestAction, rd, address, Append(t, "policy"))

\* CheckPolicy resolving the interface before it consults the policies
CheckPolicyAfterLink(pol, lks, requestAction, rd, address, t) ==
    LET policyPassed == \E i \in 1..Len(pol) : Allows(pol[i], rd.InterfaceName, address)
        r == LinkByName(lks, rd.InterfaceName)
    IN  IF r.err # ""
        THEN Answered(Append(t, "link"),
                      HttpError("Failed to retreive interface: " \o r.err,
                                StatusInternalServerError))
        ELSE IF ~policyPassed
        THEN Answered(t \o <<"link", "policy">>,
                      HttpError("Rejected cidr address for interface, because no matching policy was found",
                                StatusForbidden))
        ELSE [resp |-> NoResp, trace |-> t \o <<"link", "policy">>,
              action |-> requestAction, address |-> address,
              link |-> r.link, call |-> TRUE]

\* handleRequest, lines 156-171
CheckPolicy(pol, lks, requestAction, rd, address, t) ==
    LET policyPassed == \E i \in 1..Len(pol) : Allows(pol[i], rd.InterfaceName, address)
    IN  IF ~policyPassed
        THEN Answered(Append(t, "policy"),
                      HttpError("Rejected cidr address for interface, because no matching policy was found",
                                StatusForbidden))
        ELSE ResolveLink(lks, requestAction, rd, address, Append(t, "policy"))

\* CheckCIDR answering an address that does not parse with 400
CheckCIDRBadRequest(pol, lks, requestAction, rd, t) ==
    LET p == ParseAddress(rd.Address)
    IN  IF p.err # ""
        THEN Answered(Append(t, "cidr"),
                      HttpError("Failed to parse cidr address: " \o p.err,
                                StatusBadRequest))
        ELSE CheckPolicy(pol, lks, requestAction, rd, p.addr, Append(t, "cidr"))

\* handleRequest, lines 144-154
CheckCIDR(pol, lks, requestAction, rd, t) ==
    LET p == ParseAddress(rd.Address)
    IN  IF p.err # ""
        THEN Answered(Append(t, "cidr"),
                      HttpError("Failed to parse cidr address: " \o p.err,
                                StatusInternalServerError))
        ELSE CheckPolicy(pol, lks, requestAction, rd, p.addr, Append(t, "cidr"))

\* CheckInterfaceName refusing a name the host has no interface for
CheckInterfaceNameOnHost(pol, lks, requestAction, rd, t) ==
    IF rd.InterfaceName = <<>>
    THEN Answered(Append(t, "interface_name"),
                  HttpError("Interface name (\"interface_name\") is missing in request",
                            StatusBadRequest))
    ELSE IF LinkByName(lks, rd.InterfaceName).err # ""
    THEN Answered(Append(t, "interface_name"),
                  HttpError("Failed to retreive interface: "
                                \o LinkByName(lks, rd.InterfaceName).err,
                            StatusInternalServerError))
    ELSE CheckCIDR(pol, lks, requestAction, rd, Append(t, "interface_name"))

\* handleRequest, lines 134-142
CheckInterfaceName(pol, lks, requestAction, rd, t) ==
    IF rd.InterfaceName = <<>>
    THEN Answered(Append(t, "interface_name"),
                  HttpError("Interface name (\"interface_name\") is missing in request",
                            StatusBadRequest))
    ELSE CheckCIDR(pol, lks, requestAction, rd, Append(t, "interface_name"))

\* CheckAddress with the interface name looked at before the address
CheckAddressAfterInterfaceName(pol, lks, requestAction, rd, t) ==
    IF rd.InterfaceName = <<>>
    THEN Answered(Append(t, "interface_name"),
                  HttpError("Interface name (\"interface_name\") is missing in request",
                            StatusBadRequest))
    ELSE IF rd.Address = EmptyText
    THEN Answered(Append(t, "address"),
                  HttpError("Address (\"address\") is missing in request",
                            StatusBadRequest))
    ELSE CheckCIDR(pol, lks, requestAction, rd, t \o <<"address", "interface_name">>)

\* handleRequest, lines 124-132
CheckAddress(pol, lks, requestAction, rd, t) ==
    IF rd.Address = EmptyText
    THEN Answered(Append(t, "address"),
                  HttpError("Address (\"address\") is missing in request",
                            StatusBadRequest))
    ELSE CheckInterfaceName(pol, lks, requestAction, rd, Append(t, "address"))

\* handleRequest, lines 113-122
DecodeBody(pol, lks, requestAction, r, t) ==
    LET d == Decode(r.body)
    IN  IF d.err # ""
        THEN Answered(Append(t, "json"),
                      HttpError("Failed to parse request body: " \o d.err,
                                StatusBadRequest))
        ELSE CheckAddress(pol, lks, requestAction, d.rd, Append(t, "json"))

\* CheckContentType letting a request without the header through
CheckContentTypeOptional(pol, lks, requestAction, r, t) ==
    IF r.ctype # "" /\ r.ctype # "application/json"
    THEN Answered(Append(t, "content-type"),
                  HttpError("Invalid content type (expected \"application/json\")",
                            StatusBadRequest))
    ELSE DecodeBody(pol, lks, requestAction, r, Append(t, "content-type"))

\* handleRequest, lines 102-111
CheckContentType(pol, lks, requestAction, r, t) ==
    IF r.ctype # "application/json"
    THEN Answered(Append(t, "content-type"),
                  HttpError("Invalid content type (expected \"application/json\")",
                            StatusBadRequest))
    ELSE DecodeBody(pol, lks, requestAction, r, Append(t, "content-type"))

\* CheckBody with the content type looked at before the body
CheckBodyAfterContentType(pol, lks, requestAction, r, t) ==
    IF r.ctype # "application/json"
    THEN Answered(Append(t, "content-type"),
                  HttpError("Invalid content type (expected \"application/json\")",
                            StatusBadRequest))
    ELSE IF r.body.kind = "nil"
    THEN Answered(t \o <<"content-type", "body">>,
                  HttpError("Request body is empty", StatusBadRequest))
    ELSE DecodeBody(pol, lks, requestAction, r, t \o <<"content-type", "body">>)

\* handleRequest, lines 93-100
CheckBody(pol, lks, requestAction, r, t) ==
    IF r.body.kind = "nil"
    THEN Answered(Append(t, "body"),
                  HttpError("Request body is empty", StatusBadRequest))
    ELSE CheckContentType(pol, lks, requestAction, r, Append(t, "body"))

\* CheckMethod with the body looked at before the method
CheckMethodAfterBody(pol, lks, requestAction, r, t) ==
    IF r.body.kind = "nil"
    THEN Answered(Append(t, "body"),
                  HttpError("Request body is empty", StatusBadRequest))
    ELSE IF r.method # "POST"
    THEN Answered(Append(t, "method"),
                  HttpError("Method Not Allowed", StatusMethodNotAllowed))
    ELSE CheckBody(pol, lks, requestAction, r, Append(t, "method"))

\* handleRequest, lines 81-89
CheckMethod(pol, lks, requestAction, r, t) ==
    IF r.method # "POST"
    THEN Answered(Append(t, "method"),
                  HttpError("Method Not Allowed", StatusMethodNotAllowed))
    ELSE CheckBody(pol, lks, requestAction, r, Append(t, "method"))

\* handleRequest looking at the method before the path
handleRequestMethodFirst(pol, lks, r, t) ==
    IF r.method # "POST"
    THEN Answered(Append(t, "method"),
                  HttpError("Method Not Allowed", StatusMethodNotAllowed))
    ELSE IF r.path = "/add"
    THEN CheckMethod(pol, lks, "add", r, Append(t, "path"))
    ELSE IF r.path = "/delete"
    THEN CheckMethod(pol, lks, "delete", r, Append(t, "path"))
    ELSE Answered(Append(t, "path"), HttpError("Path not found", StatusNotFound))

\* handleRequest, lines 66-79, up to the call of AddAddress or DeleteAddress
handleRequest(pol, lks, r, t) ==
    IF r.path = "/add"
    THEN CheckMethod(pol, lks, "add", r, Append(t, "path"))
    ELSE IF r.path = "/delete"
    THEN CheckMethod(pol, lks, "delete", r, Append(t, "path"))
    ELSE Answered(Append(t, "path"), HttpError("Path not found", StatusNotFound))

\* handleHealthzRequest
handleHealthzRequest(r) ==
    IF r.method # "GET"
    THEN Answered(<<"healthz">>, HttpError("Method Not Allowed", StatusMethodNotAllowed))
    ELSE Answered(<<"healthz">>, Fprintf("Server is healthy and ready to serve\n"))

\* authenticateRequest without the verification of the certificate
authenticateRequestUnverified(r) ==
    IF r.cert = "none" THEN HttpError("Unauthorized", StatusUnauthorized)
    ELSE NoResp

\* authenticateRequest: the response of a rejected request, NoResp when accepted
authenticateRequest(r) ==
    IF r.cert = "none" THEN HttpError("Unauthorized", StatusUnauthorized)
    ELSE IF r.cert # "valid" THEN HttpError("Access denied", StatusForbidden)
    ELSE NoResp

\* the handler authenticating every request, /healthz included
HandlerAuthenticated(pol, lks, r) ==
    IF authenticateRequest(r) # NoResp
    THEN Answered(<<"auth">>, authenticateRequest(r))
    ELSE IF r.path = "/healthz" THEN handleHealthzRequest(r)
    ELSE handleRequest(pol, lks, r, <<"auth">>)

\* the handler RunServer installs
Handler(pol, lks, r) ==
    IF r.path = "/healthz" THEN handleHealthzRequest(r)
    ELSE IF authenticateRequest(r) = NoResp
         THEN handleRequest(pol, lks, r, <<"auth">>)
         ELSE Answered(<<"auth">>, authenticateRequest(r))

(***************************************************************************)
(* ipam.go: the address state manager and the announcer                    *)
(***************************************************************************)
\* netlink.Addr.Equal: the same IP and the same prefix length
AddrEqual(a, x) == IPEqual(a.IP, x.IP) /\ MaskSize(a.Mask) = MaskSize(x.Mask)

\* AddressExists comparing the IP alone, whatever the prefix length
AddressExistsAnyPrefix(existingAddresses, address) ==
    \E existingAddress \in existingAddresses : IPEqual(existingAddress.IP, address.IP)

\* AddressExists, lines 194-210, on the list netlink.AddrList returned
AddressExists(existingAddresses, address) ==
    \E existingAddress \in existingAddresses : AddrEqual(existingAddress, address)

Broadcast == <<255, 255, 255, 255, 255, 255>>
AllNodesMAC == <<51, 51, 0, 0, 0, 1>>

\* AdvertiseAddress with an ARP probe in place of the announcement: the
\* sender protocol address left zero
ARPFrameProbe(link, address) ==
    [proto |-> "ETH_P_ARP",
     ifindex |-> link.Index,
     eth |-> [SrcMAC |-> link.HardwareAddr, DstMAC |-> Broadcast,
              EthernetType |-> "ARP"],
     ip |-> [Version |-> 0, SrcIP |-> NilIP, DstIP |-> "",
             NextHeader |-> "", HopLimit |-> 0],
     msg |-> [Type |-> "ARPRequest", Flags |-> 0,
              SourceHwAddress |-> link.HardwareAddr,
              SourceProtAddress |-> [fam |-> "v4", val |-> 0],
              DstHwAddress |-> Broadcast,
              DstProtAddress |-> address.IP,
              TargetAddress |-> NilIP,
              Options |-> <<>>]]

\* AdvertiseAddress, lines 90-116: the Ethernet and ARP layers for an IPv4
\* address
ARPFrame(link, address) ==
    [proto |-> "ETH_P_ARP",
     ifindex |-> link.Index,
     eth |-> [SrcMAC |-> link.HardwareAddr, DstMAC |-> Broadcast,
              EthernetType |-> "ARP"],
     ip |-> [Version |-> 0, SrcIP |-> NilIP, DstIP |-> "",
             NextHeader |-> "", HopLimit |-> 0],
     msg |-> [Type |-> "ARPRequest", Flags |-> 0,
              SourceHwAddress |-> link.HardwareAddr,
              SourceProtAddress |-> address.IP,
              DstHwAddress |-> Broadcast,
              DstProtAddress |-> address.IP,
              TargetAddress |-> NilIP,
              Options |-> <<>>]]

\* AdvertiseAddress sending the Neighbor Advertisement without the override
\* flag
NAFrameNoOverride(link, address) ==
    [proto |-> "ETH_P_IPV6",
     ifindex |-> link.Index,
     eth |-> [SrcMAC |-> link.HardwareAddr, DstMAC |-> AllNodesMAC,
              EthernetType |-> "IPv6"],
     ip |-> [Version |-> 6, SrcIP |-> address.IP, DstIP |-> "ff02::1",
             NextHeader |-> "ICMPv6", HopLimit |-> 255],
     msg |-> [Type |-> "NeighborAdvertisement", Flags |-> 0,
              SourceHwAddress |-> <<>>,
              SourceProtAddress |-> NilIP,
              DstHwAddress |-> <<>>,
              DstProtAddress |-> NilIP,
              TargetAddress |-> address.IP,
              Options |-> <<[Type |-> "TargetAddress",
                             Data |-> link.HardwareAddr]>>]]

\* AdvertiseAddress, lines 117-158: the Ethernet, IPv6, ICMPv6 and Neighbor
\* Advertisement layers for any other address; Flags is the flag byte (R 128,
\* S 64, O 32)
NAFrame(link, address) ==
    [proto |-> "ETH_P_IPV6",
     ifindex |-> link.Index,
     eth |-> [SrcMAC |-> link.HardwareAddr, DstMAC |-> AllNodesMAC,
              EthernetType |-> "IPv6"],
     ip |-> [Version |-> 6, SrcIP |-> address.IP, DstIP |-> "ff02::1",
             NextHeader |-> "ICMPv6", HopLimit |-> 255],
     msg |-> [Type |-> "NeighborAdvertisement", Flags |-> 32,
              SourceHwAddress |-> <<>>,
              SourceProtAddress |-> NilIP,
              DstHwAddress |-> <<>>,
              DstProtAddress |-> NilIP,
              TargetAddress |-> address.IP,
              Options |-> <<[Type |-> "TargetAddress",
                             Data |-> link.HardwareAddr]>>]]

\* AdvertiseAddress, lines 90-158: the frame for an address on a link
Frame(link, address) ==
    IF address.IP.fam = "v4" THEN ARPFrame(link, address)
    ELSE NAFrame(link, address)

\* gopacket.SerializeLayers: the Ethernet layer needs hardware addresses of
\* six bytes
SerializeError(frame) ==
    IF Len(frame.eth.SrcMAC) # 6 \/ Len(frame.eth.DstMAC) # 6
    THEN "invalid MAC" ELSE ""

\* what AddrList, AddrAdd, AddrDel and the socket calls can fail with
OSErrors == {"operation not permitted"}

\* Respond answering with the confirmation whatever AddAddress or
\* DeleteAddress returned
RespondUnchecked(requestAction, err) ==
    IF requestAction = "add"
    THEN Fprintf("Successfully added address to interface\n")
    ELSE Fprintf("Successfully deleted address from interface\n")

\* handleRequest, lines 185-214: the answer after AddAddress or DeleteAddress
\* returned err
Respond(requestAction, err) ==
    IF requestAction = "add"
    THEN IF err # ""
         THEN HttpError("Failed to add cidr address to interface: " \o err,
                        StatusInternalServerError)
         ELSE Fprintf("Successfully added address to interface\n")
    ELSE IF err # ""
         THEN HttpError("Failed to delete cidr address from interface: " \o err,
                        StatusInternalServerError)
         ELSE Fprintf("Successfully deleted address from interface\n")

(***************************************************************************)
(* State.                                                                  *)
(*   policies  config.AddressPolicies, fixed at start                      *)
(*   links     the interfaces of the host                                  *)
(*   addrs     the addresses of each interface, by interface name          *)
(*   sent      the frames transmitted so far                               *)
(*   slot      per worker, the request it serves: where it stands (pc),    *)
(*             what handleRequest found (action, address, link), the       *)
(*             checks and OS calls made for it in order (trace), the       *)
(*             pair AddressExists returned (addressExists, existsErr), the *)
(*             error AddAddress or DeleteAddress returned (err), the       *)
(*             response (resp), the addresses of the link when the call    *)
(*             started (before) and the call the request before it made    *)
(*             (prev)                                                      *)
(*   probe     a policy list, an interface name and an address put to      *)
(*             Allows and to the policy check on their own, with what      *)
(*             they returned                                               *)
(***************************************************************************)
Workers == {"w1", "w2"}

NoReq == [cert |-> "", path |-> "", method |-> "", ctype |-> "",
          body |-> [kind |-> "nil", address |-> EmptyText, interface_name |-> <<>>]]

NoCall == [op |-> "", link |-> <<>>, address |-> NoNet, err |-> "", before |-> {}]

IdleSlot == [pc |-> "idle", req |-> NoReq, action |-> "", address |-> NoNet,
             link |-> NoLink, trace |-> <<>>, resp |-> NoResp, err |-> "",
             addressExists |-> FALSE, existsErr |-> "", before |-> {},
             prev |-> NoCall]

\* the call of AddAddress or DeleteAddress a finished request made
LastCall(s) ==
    IF s.pc = "done" /\ s.action # ""
    THEN [op |-> s.action, link |-> s.link.Name, address |-> s.address,
          err |-> s.err, before |-> s.before]
    ELSE NoCall

\* AddAddress or DeleteAddress returns err: handleRequest answers
Return(s, t, err) ==
    [s EXCEPT !.pc = "done", !.trace = s.trace \o t, !.err = err,
              !.resp = Respond(s.action, err)]

(***************************************************************************)
(* Inputs.                                                                 *)
(***************************************************************************)
E0 == <<"e", "0">>
E01 == <<"e", "0", "1">>
X == <<"x">>

DotStar == [bol |-> FALSE, body |-> <<".*">>, eol |-> FALSE]
OnlyE0 == [bol |-> TRUE, body |-> E0, eol |-> TRUE]
AnyE0 == [bol |-> FALSE, body |-> E0, eol |-> FALSE]

\* the policy lists a process can be started with
PolicyConfigs ==
    { <<>>,
      << Policy(Text("v6", 48, 2), DotStar) >>,
      << Policy(Text("v6", 50, 2), OnlyE0), Policy(Text("v4", 12, 2), AnyE0) >> }

\* the interfaces of the host: E01 has no hardware address (a tunnel)
HostLinks ==
    { [Name |-> E0, Index |-> 2, HardwareAddr |-> <<2, 0, 0, 0, 0, 1>>],
      [Name |-> E01, Index |-> 3, HardwareAddr |-> <<>>] }

\* the addresses the interfaces hold when the process starts
InitialAddrs == { [n \in {E0, E01} |-> {}] }

AddressTexts ==
    { EmptyText, Text("bad", 0, 2), NoSlashText("v4", 13),
      Text("v4", 13, V4Bits + 1),
      Text("v4", 13, 2), Text("v6", 50, 2), Text("v6", 50, 3) }

Bodies ==
    { [kind |-> k, address |-> EmptyText, interface_name |-> <<>>] :
        k \in {"nil", "empty", "malformed"} }
    \cup
    { [kind |-> "json", address |-> a, interface_name |-> n] :
        a \in AddressTexts, n \in {<<>>, E0, E01, X} }

\* the values of the Content-Type header: the JSON media type as the service
\* expects it, the same with a parameter, another type, and no header
ContentTypes ==
    {"application/json", "application/json; charset=utf-8", "text/plain", ""}

Requests ==
    { [cert |-> c, path |-> p, method |-> m, ctype |-> t, body |-> b] :
        c \in {"none", "invalid", "valid"},
        p \in {"/add", "/delete", "/healthz", "/invalid"},
        m \in {"POST", "GET"},
        t \in ContentTypes,
        b \in Bodies }

(***************************************************************************)
(* Actions.                                                                *)
(***************************************************************************)
\* the handler of RunServer takes request r: everything up to the call of
\* AddAddress or DeleteAddress
Serve(w, r) ==
    /\ slot[w].pc = "idle"
    /\ \E o \in {Handler(policies, links, r)} :
           slot' = [slot EXCEPT ![w] =
                [pc |-> IF ~o.call THEN "done"
                        ELSE IF o.action = "add" THEN "add:exists" ELSE "del:exists",
                 req |-> r, action |-> o.action, address |-> o.address,
                 link |-> o.link, trace |-> o.trace, resp |-> o.resp, err |-> "",
                 addressExists |-> FALSE, existsErr |-> "",
                 before |-> IF o.call THEN addrs[o.link.Name] ELSE {},
                 prev |-> IF o.call THEN slot[w].prev ELSE NoCall]]
    /\ UNCHANGED <<probe, policies, links, addrs, sent>>

\* the handler returns: the response is written and the worker is free for
\* the next request
HandlerReturns(w) ==
    /\ slot[w].pc = "done"
    /\ slot' = [slot EXCEPT ![w] = [IdleSlot EXCEPT !.prev = LastCall(slot[w])]]
    /\ UNCHANGED <<probe, policies, links, addrs, sent>>

\* AddAddress going on to netlink.AddrAdd whatever the existence check found
AddExistsUnchecked(w) ==
    LET s == slot[w]
    IN  /\ s.pc = "add:exists"
        /\ \E err \in OSErrors \cup {""} :
              slot' = [slot EXCEPT ![w] =
                  IF err # "" THEN Return(s, <<"AddrList">>, err)
                  ELSE [s EXCEPT !.pc = "add:mutate",
                                 !.trace = Append(s.trace, "AddrList")]]
        /\ UNCHANGED <<probe, policies, links, addrs, sent>>

\* AddAddress announcing an address it found on the interface
AddExistsAnnouncing(w) ==
    LET s == [slot[w] EXCEPT
                 !.addressExists = AddressExists(addrs[slot[w].link.Name],
                                                 slot[w].address)]
    IN  /\ slot[w].pc = "add:exists"
        /\ \E err \in OSErrors \cup {""} :
              slot' = [slot EXCEPT ![w] =
                  IF err # "" THEN Return(s, <<"AddrList">>, err)
                  ELSE IF s.addressExists
                       THEN [s EXCEPT !.pc = "add:advertise",
                                      !.trace = Append(s.trace, "AddrList")]
                       ELSE [s EXCEPT !.pc = "add:mutate",
                                      !.trace = Append(s.trace, "AddrList")]]
        /\ UNCHANGED <<probe, policies, links, addrs, sent>>

\* AddAddress going on to netlink.AddrAdd when the listing failed
AddExistsListingIgnored(w) ==
    LET s == [slot[w] EXCEPT
                 !.addressExists = AddressExists(addrs[slot[w].link.Name],
                                                 slot[w].address)]
    IN  /\ slot[w].pc = "add:exists"
        /\ \E err \in OSErrors \cup {""} :
              slot' = [slot EXCEPT ![w] =
                  IF err # ""
                  THEN [s EXCEPT !.pc = "add:mutate", !.addressExists = FALSE,
                                 !.existsErr = err,
                                 !.trace = Append(s.trace, "AddrList")]
                  ELSE IF s.addressExists
                       THEN Return(s, <<"AddrList">>, "")
                       ELSE [s EXCEPT !.pc = "add:mutate",
                                      !.trace = Append(s.trace, "AddrList")]]
        /\ UNCHANGED <<probe, policies, links, addrs, sent>>

\* AddAddress refusing an address it found on the interface
AddExistsRefusing(w) ==
    LET s == [slot[w] EXCEPT
                 !.addressExists = AddressExists(addrs[slot[w].link.Name],
                                                 slot[w].address)]
    IN  /\ slot[w].pc = "add:exists"
        /\ \E err \in OSErrors \cup {""} :
              slot' = [slot EXCEPT ![w] =
                  IF err # ""
                  THEN Return([s EXCEPT !.addressExists = FALSE, !.existsErr = err],
                              <<"AddrList">>, err)
                  ELSE IF s.addressExists
                       THEN Return(s, <<"AddrList">>, "file exists")
                       ELSE [s EXCEPT !.pc = "add:mutate",
                                      !.trace = Append(s.trace, "AddrList")]]
        /\ UNCHANGED <<probe, policies, links, addrs, sent>>

\* AddAddress, lines 38-48: the existence check
AddExists(w) ==
    LET s == [slot[w] EXCEPT
                 !.addressExists = AddressExists(addrs[slot[w].link.Name],
                                                 slot[w].address)]
    IN  /\ slot[w].pc = "add:exists"
        /\ \E err \in OSErrors \cup {""} :
              slot' = [slot EXCEPT ![w] =
                  IF err # ""
                  THEN Return([s EXCEPT !.addressExists = FALSE, !.existsErr = err],
                              <<"AddrList">>, err)
                  ELSE IF s.addressExists
                       THEN Return(s, <<"AddrList">>, "")
                       ELSE [s EXCEPT !.pc = "add:mutate",
                                      !.trace = Append(s.trace, "AddrList")]]
        /\ UNCHANGED <<probe, policies, links, addrs, sent>>

\* AddAddress taking the kernel's refusal of an address the interface
\* already has for success
AddMutateTolerant(w) ==
    LET s == slot[w]
    IN  /\ s.pc = "add:mutate"
        /\ \E err \in OSErrors \cup {"file exists", ""} :
              /\ err = "file exists" <=> AddressExists(addrs[s.link.Name], s.address)
              /\ IF err = "file exists"
                 THEN /\ slot' = [slot EXCEPT ![w] = Return(s, <<"AddrAdd">>, "")]
                      /\ UNCHANGED addrs
                 ELSE IF err # ""
                 THEN /\ slot' = [slot EXCEPT ![w] = Return(s, <<"AddrAdd">>, err)]
                      /\ UNCHANGED addrs
                 ELSE /\ slot' = [slot EXCEPT ![w] =
                             [s EXCEPT !.pc = "add:advertise",
                                       !.trace = Append(s.trace, "AddrAdd")]]
                      /\ addrs' = [addrs EXCEPT ![s.link.Name] = @ \cup {s.address}]
        /\ UNCHANGED <<probe, policies, links, sent>>

\* AddAddress, lines 50-63: netlink.AddrAdd; the kernel refuses an address
\* the interface already has
AddMutate(w) ==
    LET s == slot[w]
    IN  /\ s.pc = "add:mutate"
        /\ \E err \in OSErrors \cup {"file exists", ""} :
              /\ err = "file exists" <=> AddressExists(addrs[s.link.Name], s.address)
              /\ IF err # ""
                 THEN /\ slot' = [slot EXCEPT ![w] = Return(s, <<"AddrAdd">>, err)]
                      /\ UNCHANGED addrs
                 ELSE /\ slot' = [slot EXCEPT ![w] =
                             [s EXCEPT !.pc = "add:advertise",
                                       !.trace = Append(s.trace, "AddrAdd")]]
                      /\ addrs' = [addrs EXCEPT ![s.link.Name] = @ \cup {s.address}]
        /\ UNCHANGED <<probe, policies, links, sent>>

\* AddAddress taking the address off the interface again when the
\* announcement fails
AddAdvertiseRollback(w) ==
    LET s == slot[w]
        frame == Frame(s.link, s.address)
        removed == [addrs EXCEPT ![s.link.Name] =
                       {a \in @ : ~AddrEqual(a, s.address)}]
    IN  /\ s.pc = "add:advertise"
        /\ IF SerializeError(frame) # ""
           THEN /\ slot' = [slot EXCEPT ![w] =
                       Return(s, <<"Serialize">>, SerializeError(frame))]
                /\ addrs' = removed
                /\ UNCHANGED sent
           ELSE \E err \in OSErrors \cup {""} :
                    /\ slot' = [slot EXCEPT ![w] =
                           Return(s, <<"Serialize", "Socket", "Bind", "Sendto", "Close">>,
                                  err)]
                    /\ sent' = IF err = "" THEN sent \cup {frame} ELSE sent
                    /\ addrs' = IF err = "" THEN addrs ELSE removed
        /\ UNCHANGED <<probe, policies, links>>

\* AdvertiseAddress sending the frame a second time when the first send
\* failed
AddAdvertiseRetry(w) ==
    LET s == slot[w]
        frame == Frame(s.link, s.address)
    IN  /\ s.pc = "add:advertise"
        /\ IF SerializeError(frame) # ""
           THEN /\ slot' = [slot EXCEPT ![w] =
                       Return(s, <<"Serialize">>, SerializeError(frame))]
                /\ UNCHANGED sent
           ELSE \E fail \in {"Socket", "Bind", "Sendto", ""} :
                  \E err \in OSErrors :
                    LET calls == IF fail = "Socket" THEN <<"Serialize", "Socket">>
                                 ELSE IF fail = "Bind"
                                 THEN <<"Serialize", "Socket", "Bind", "Close">>
                                 ELSE IF fail = "Sendto"
                                 THEN <<"Serialize", "Socket", "Bind", "Sendto", "Sendto", "Close">>
                                 ELSE <<"Serialize", "Socket", "Bind", "Sendto", "Close">>
                    IN  /\ slot' = [slot EXCEPT ![w] =
                               Return(s, calls,
                                      IF fail \in {"", "Sendto"} THEN "" ELSE err)]
                        /\ sent' = IF fail \in {"", "Sendto"} THEN sent \cup {frame}
                                   ELSE sent
        /\ UNCHANGED <<probe, policies, links, addrs>>

\* AdvertiseAddress closing the socket after the send only: a failed bind
\* leaves it open
AddAdvertiseLeaking(w) ==
    LET s == slot[w]
        frame == Frame(s.link, s.address)
    IN  /\ s.pc = "add:advertise"
        /\ IF SerializeError(frame) # ""
           THEN /\ slot' = [slot EXCEPT ![w] =
                       Return(s, <<"Serialize">>, SerializeError(frame))]
                /\ UNCHANGED sent
           ELSE \E fail \in {"Socket", "Bind", "Sendto", ""} :
                  \E err \in OSErrors :
                    LET calls == IF fail = "Socket" THEN <<"Serialize", "Socket">>
                                 ELSE IF fail = "Bind"
                                 THEN <<"Serialize", "Socket", "Bind">>
                                 ELSE <<"Serialize", "Socket", "Bind", "Sendto", "Close">>
                    IN  /\ slot' = [slot EXCEPT ![w] =
                               Return(s, calls, IF fail = "" THEN "" ELSE err)]
                        /\ sent' = IF fail = "" THEN sent \cup {frame} ELSE sent
        /\ UNCHANGED <<probe, policies, links, addrs>>

\* AddAddress taking a failed announcement for success
AddAdvertiseUnchecked(w) ==
    LET s == slot[w]
        frame == Frame(s.link, s.address)
    IN  /\ s.pc = "add:advertise"
        /\ IF SerializeError(frame) # ""
           THEN /\ slot' = [slot EXCEPT ![w] = Return(s, <<"Serialize">>, "")]
                /\ UNCHANGED sent
           ELSE \E fail \in {"Socket", "Bind", "Sendto", ""} :
                    LET calls == IF fail = "Socket" THEN <<"Serialize", "Socket">>
                                 ELSE IF fail = "Bind"
                                 THEN <<"Serialize", "Socket", "Bind", "Close">>
                                 ELSE <<"Serialize", "Socket", "Bind", "Sendto", "Close">>
                    IN  /\ slot' = [slot EXCEPT ![w] = Return(s, calls, "")]
                        /\ sent' = IF fail = "" THEN sent \cup {frame} ELSE sent
        /\ UNCHANGED <<probe, policies, links, addrs>>

\* AddAddress, lines 65-80, with AdvertiseAddress: the frame is encoded, a
\* socket opened, bound, written to once and closed
AddAdvertise(w) ==
    LET s == slot[w]
        frame == Frame(s.link, s.address)
    IN  /\ s.pc = "add:advertise"
        /\ IF SerializeError(frame) # ""
           THEN /\ slot' = [slot EXCEPT ![w] =
                       Return(s, <<"Serialize">>, SerializeError(frame))]
                /\ UNCHANGED sent
           ELSE \E fail \in {"Socket", "Bind", "Sendto", ""} :
                  \E err \in OSErrors :
                    LET calls == IF fail = "Socket" THEN <<"Serialize", "Socket">>
                                 ELSE IF fail = "Bind"
                                 THEN <<"Serialize", "Socket", "Bind", "Close">>
                                 ELSE <<"Serialize", "Socket", "Bind", "Sendto", "Close">>
                    IN  /\ slot' = [slot EXCEPT ![w] =
                               Return(s, calls, IF fail = "" THEN "" ELSE err)]
                        /\ sent' = IF fail = "" THEN sent \cup {frame} ELSE sent
        /\ UNCHANGED <<probe, policies, links, addrs>>

\* DeleteAddress going on to netlink.AddrDel whatever the existence check
\* found
DeleteExistsUnchecked(w) ==
    LET s == slot[w]
    IN  /\ s.pc = "del:exists"
        /\ \E err \in OSErrors \cup {""} :
              slot' = [slot EXCEPT ![w] =
                  IF err # "" THEN Return(s, <<"AddrList">>, err)
                  ELSE [s EXCEPT !.pc = "del:mutate",
                                 !.trace = Append(s.trace, "AddrList")]]
        /\ UNCHANGED <<probe, policies, links, addrs, sent>>

\* DeleteAddress with the existence check inverted: it returns when the
\* address is there
DeleteExistsInverted(w) ==
    LET s == [slot[w] EXCEPT
                 !.addressExists = AddressExists(addrs[slot[w].link.Name],
                                                 slot[w].address)]
    IN  /\ slot[w].pc = "del:exists"
        /\ \E err \in OSErrors \cup {""} :
              slot' = [slot EXCEPT ![w] =
                  IF err # "" THEN Return(s, <<"AddrList">>, err)
                  ELSE IF s.addressExists
                       THEN Return(s, <<"AddrList">>, "")
                       ELSE [s EXCEPT !.pc = "del:mutate",
                                      !.trace = Append(s.trace, "AddrList")]]
        /\ UNCHANGED <<probe, policies, links, addrs, sent>>

\* DeleteAddress, lines 215-225: the existence check
DeleteExists(w) ==
    LET s == [slot[w] EXCEPT
                 !.addressExists = AddressExists(addrs[slot[w].link.Name],
                                                 slot[w].address)]
    IN  /\ slot[w].pc = "del:exists"
        /\ \E err \in OSErrors \cup {""} :
              slot' = [slot EXCEPT ![w] =
                  IF err # ""
                  THEN Return([s EXCEPT !.addressExists = FALSE, !.existsErr = err],
                              <<"AddrList">>, err)
                  ELSE IF ~s.addressExists
                       THEN Return(s, <<"AddrList">>, "")
                       ELSE [s EXCEPT !.pc = "del:mutate",
                                      !.trace = Append(s.trace, "AddrList")]]
        /\ UNCHANGED <<probe, policies, links, addrs, sent>>

\* DeleteAddress, lines 227-242: netlink.AddrDel; the kernel refuses an
\* address the interface does not have
DeleteMutate(w) ==
    LET s == slot[w]
    IN  /\ s.pc = "del:mutate"
        /\ \E err \in OSErrors \cup {"cannot assign requested address", ""} :
              /\ err = "cannot assign requested address"
                    <=> ~AddressExists(addrs[s.link.Name], s.address)
              /\ slot' = [slot EXCEPT ![w] = Return(s, <<"AddrDel">>, err)]
              /\ addrs' = IF err # "" THEN addrs
                          ELSE [addrs EXCEPT ![s.link.Name] =
                                   {a \in @ : ~AddrEqual(a, s.address)}]
        /\ UNCHANGED <<probe, policies, links, sent>>

NoProbe == [pc |-> "off", pol |-> <<>>, name |-> <<>>, text |-> EmptyText,
            allowed |-> <<>>, outcome |-> Answered(<<>>, NoResp)]

Init ==
    /\ policies \in PolicyConfigs
    /\ links = HostLinks
    /\ addrs \in InitialAddrs
    /\ sent = {}
    /\ slot = [w \in Workers |-> IdleSlot]
    /\ probe = NoProbe

Next ==
    \/ \E r \in Requests : Serve("w1", r)
    \/ HandlerReturns("w1")
    \/ AddExists("w1")
    \/ AddMutate("w1")
    \/ AddAdvertise("w1")
    \/ DeleteExists("w1")
    \/ DeleteMutate("w1")

Spec == Init /\ [][Next]_vars

\* the requests two clients send at the same time: the same address for the
\* same interface, to add and to delete
ConcurrentRequests ==
    { [cert |-> "valid", path |-> p, method |-> "POST", ctype |-> "application/json",
       body |-> [kind |-> "json", address |-> Text("v6", 50, 2),
                 interface_name |-> E0]] :
        p \in {"/add", "/delete"} }

\* net/http runs the handler of every connection in a goroutine of its own;
\* handleRequest, AddAddress and DeleteAddress take no lock
NextConcurrent ==
    \E w \in Workers :
        \/ \E r \in ConcurrentRequests : Serve(w, r)
        \/ HandlerReturns(w)
        \/ AddExists(w)
        \/ AddMutate(w)
        \/ AddAdvertise(w)
        \/ DeleteExists(w)
        \/ DeleteMutate(w)

SpecConcurrent == Init /\ [][NextConcurrent]_vars

(***************************************************************************)
(* The request pipeline: reference definitions for the claims.             *)
(***************************************************************************)
\* the checks of handleRequest in the order of the specification
CheckOrder ==
    <<"path", "method", "body", "content-type", "json", "address",
      "interface_name", "cidr", "policy", "link">>

\* the fields of the request body as the decoder delivers them
BodyAddress(r) == IF r.body.kind = "json" THEN r.body.address ELSE EmptyText
BodyInterface(r) == IF r.body.kind = "json" THEN r.body.interface_name ELSE <<>>

\* whether request r does not satisfy a check, looked at on its own
Fails(check, r) ==
    CASE check = "path" -> r.path \notin {"/add", "/delete"}
      [] check = "method" -> r.method # "POST"
      [] check = "body" -> r.body.kind = "nil"
      [] check = "content-type" -> r.ctype # "application/json"
      [] check = "json" -> r.body.kind \in {"empty", "malformed"}
      [] check = "address" -> BodyAddress(r) = EmptyText
      [] check = "interface_name" -> BodyInterface(r) = <<>>
      [] check = "cidr" -> ParseAddress(BodyAddress(r)).err # ""
      [] check = "policy" ->
            ~\E i \in 1..Len(policies) :
                Allows(policies[i], BodyInterface(r), ParseAddress(BodyAddress(r)).addr)
      [] check = "link" -> ~\E l \in links : l.Name = BodyInterface(r)

\* the position of the first check r fails, Len(CheckOrder) + 1 when none
FirstFailing(r) ==
    IF \E k \in 1..Len(CheckOrder) : Fails(CheckOrder[k], r)
    THEN CHOOSE k \in 1..Len(CheckOrder) :
            /\ Fails(CheckOrder[k], r)
            /\ \A j \in 1..(k - 1) : ~Fails(CheckOrder[j], r)
    ELSE Len(CheckOrder) + 1

\* the status the specification gives a check
ExpectedStatus(check) ==
    CASE check = "path" -> 404
      [] check = "method" -> 405
      [] check \in {"body", "content-type", "json", "address", "interface_name"} -> 400
      [] check = "policy" -> 403
      [] check \in {"cidr", "link"} -> 500

\* the bodies the specification gives a check (the detail of a JSON error
\* is the decoder's)
ExpectedBodies(check) ==
    CASE check = "path" -> {"Path not found\n"}
      [] check = "method" -> {"Method Not Allowed\n"}
      [] check = "body" -> {"Request body is empty\n"}
      [] check = "content-type" ->
            {"Invalid content type (expected \"application/json\")\n"}
      [] check = "json" ->
            {"Failed to parse request body: " \o detail \o "\n" :
                detail \in {"EOF", "invalid character"}}
      [] check = "address" -> {"Address (\"address\") is missing in request\n"}
      [] check = "interface_name" ->
            {"Interface name (\"interface_name\") is missing in request\n"}
      [] check = "cidr" -> {"Failed to parse cidr address: invalid CIDR address\n"}
      [] check = "policy" ->
            {"Rejected cidr address for interface, because no matching policy was found\n"}
      [] check = "link" -> {"Failed to retreive interface: Link not found\n"}

\* the requests that reached handleRequest
Handled(s) == s.pc # "idle" /\ s.req.path # "/healthz" /\ s.req.cert = "valid"

\* the steps of the trace that are OS calls changing addresses or sending
MutatingCalls == {"AddrAdd", "AddrDel", "Sendto"}
Made(s, calls) == \E i \in 1..Len(s.trace) : s.trace[i] \in calls

\* C1: every request handled by handleRequest is answered by the first check
\* it fails in the fixed order path, method, body, content type, JSON,
\* address, interface name, CIDR, policy, link, execution: the checks
\* evaluated are exactly those up to that one, and its status and message are
\* the response; when no check fails, Add or Delete runs and its result is
\* the response.
C1_FirstFailureDecides ==
    \A w \in Workers :
        LET s == slot[w]
            k == FirstFailing(s.req)
        IN  Handled(s) =>
              IF k <= Len(CheckOrder)
              THEN /\ s.pc = "done"
                   /\ s.trace = <<"auth">> \o SubSeq(CheckOrder, 1, k)
                   /\ s.resp.status = ExpectedStatus(CheckOrder[k])
                   /\ s.resp.body \in ExpectedBodies(CheckOrder[k])
              ELSE /\ SubSeq(s.trace, 1, Len(CheckOrder) + 1) = <<"auth">> \o CheckOrder
                   /\ s.pc = "done" =>
                        /\ Len(s.trace) > Len(CheckOrder) + 1
                        /\ s.err = "" => s.resp.status = 200
                        /\ s.err # "" =>
                              /\ s.resp.status = 500
                              /\ s.resp.body \in
                                   {"Failed to add cidr address to interface: " \o s.err \o "\n",
                                    "Failed to delete cidr address from interface: " \o s.err \o "\n"}

\* C1 witness: a request with no body and a wrong content type was answered
\* for the body alone
C1_Witness ==
    \E w \in Workers :
        /\ Handled(slot[w]) /\ slot[w].pc = "done"
        /\ slot[w].req.path = "/add" /\ slot[w].req.method = "POST"
        /\ slot[w].req.body.kind = "nil" /\ slot[w].req.ctype = "text/plain"
        /\ slot[w].resp = [status |-> 400, body |-> "Request body is empty\n"]

\* the address a frame announces
FrameIP(f) ==
    IF f.proto = "ETH_P_ARP" THEN f.msg.SourceProtAddress ELSE f.msg.TargetAddress

\* the answers that end a request before AddAddress or DeleteAddress is called
RejectedBeforeCall(resp) ==
    \/ resp.status \in {400, 403, 404, 405}
    \/ /\ resp.status = 500
       /\ resp.body \in ExpectedBodies("cidr") \cup ExpectedBodies("link")

\* C2: an OS address mutation or a transmission made for a request happens
\* only if the request passed checks 1-10, so only if some configured policy
\* allows its interface name and address; a request answered 404, 405, 400,
\* 403 or with the CIDR or link 500 made no OS call at all; and every address
\* an interface holds and every frame sent belongs to a pair some policy
\* allows.
C2_MutationOnlyAfterAllChecks ==
    /\ \A w \in Workers :
          LET s == slot[w]
          IN  /\ Made(s, MutatingCalls) =>
                    /\ s.req.cert = "valid"
                    /\ FirstFailing(s.req) = Len(CheckOrder) + 1
                    /\ \E i \in 1..Len(policies) :
                          Allows(policies[i], s.req.body.interface_name, s.address)
                    /\ s.address = ParseAddress(s.req.body.address).addr
                    /\ s.link.Name = s.req.body.interface_name
              /\ s.pc = "done" /\ RejectedBeforeCall(s.resp) =>
                    /\ ~Made(s, MutatingCalls \cup {"AddrList", "Serialize", "Socket"})
                    /\ s.action = ""
    /\ \A l \in links : \A a \in addrs[l.Name] :
          \E i \in 1..Len(policies) : Allows(policies[i], l.Name, a)
    /\ \A f \in sent : \E l \in links : \E ones \in 0..IPBits(FrameIP(f).fam) :
          /\ f.ifindex = l.Index
          /\ \E i \in 1..Len(policies) :
                Allows(policies[i], l.Name,
                       [IP |-> FrameIP(f),
                        Mask |-> CIDRMask(ones, IPBits(FrameIP(f).fam))])

\* C2 witness: a request that passed every check added its address and sent
\* the announcement
C2_Witness ==
    \E w \in Workers :
        /\ slot[w].pc = "done" /\ slot[w].resp.status = 200
        /\ Made(slot[w], {"AddrAdd"}) /\ Made(slot[w], {"Sendto"})
        /\ slot[w].address \in addrs[slot[w].link.Name]
        /\ sent # {}

\* the requests that passed checks 1-8 of handleRequest
PassedCIDR(s) == Handled(s) /\ FirstFailing(s.req) >= 9

\* C3: a request that passed checks 1-8 is answered 403 "Rejected cidr
\* address for interface, because no matching policy was found\n" exactly
\* when no policy of the configured list allows its interface name and
\* address; one allowing policy at any position is enough.
C3_ForbiddenIffNoPolicyAllows ==
    \A w \in Workers :
        LET s == slot[w]
            rejected ==
                /\ s.pc = "done"
                /\ s.resp = [status |-> 403,
                             body |-> "Rejected cidr address for interface, because no matching policy was found\n"]
        IN  PassedCIDR(s) =>
              (rejected <=>
                 \A i \in 1..Len(policies) :
                    ~Allows(policies[i], s.req.body.interface_name,
                            ParseAddress(s.req.body.address).addr))

\* C3 witness: the second policy of the list allows the pair, the first does
\* not, and the request went on to the address manager
C3_Witness ==
    \E w \in Workers :
        /\ PassedCIDR(slot[w]) /\ slot[w].action # ""
        /\ Len(policies) = 2
        /\ ~Allows(policies[1], slot[w].req.body.interface_name, slot[w].address)
        /\ Allows(policies[2], slot[w].req.body.interface_name, slot[w].address)

\* C4: on every path but /healthz authentication comes first: without a
\* client certificate the answer is 401 "Unauthorized\n", with one that fails
\* verification 403 "Access denied\n", and in both cases nothing of
\* handleRequest runs; a verified request enters handleRequest at the path
\* check.
C4_AuthenticationFirst ==
    \A w \in Workers :
        LET s == slot[w]
        IN  s.pc # "idle" /\ s.req.path # "/healthz" =>
              /\ s.trace[1] = "auth"
              /\ s.req.cert = "none" =>
                    /\ s.pc = "done" /\ s.trace = <<"auth">> /\ s.action = ""
                    /\ s.resp = [status |-> 401, body |-> "Unauthorized\n"]
              /\ s.req.cert = "invalid" =>
                    /\ s.pc = "done" /\ s.trace = <<"auth">> /\ s.action = ""
                    /\ s.resp = [status |-> 403, body |-> "Access denied\n"]
              /\ s.req.cert = "valid" =>
                    /\ Len(s.trace) >= 2 /\ s.trace[2] = "path"
                    /\ s.req.path = "/invalid" =>
                          s.resp = [status |-> 404, body |-> "Path not found\n"]

\* C4 witness: a well-formed, permitted request with a certificate that
\* fails verification was turned away
C4_Witness ==
    \E w \in Workers :
        /\ slot[w].pc = "done" /\ slot[w].req.cert = "invalid"
        /\ slot[w].req.path = "/add"
        /\ FirstFailing(slot[w].req) = Len(CheckOrder) + 1
        /\ slot[w].resp.status = 403

(***************************************************************************)
(* The address state manager: reference definitions for the claims.        *)
(***************************************************************************)
\* the request of slot s called AddAddress (op "add") or DeleteAddress
Calls(s, op) == s.pc # "idle" /\ s.action = op

\* the call before that of slot s was op on the same link and address
Follows(s, op) ==
    /\ s.prev.op = op
    /\ s.prev.link = s.link.Name
    /\ s.prev.address = s.address

\* the steps of the trace handleRequest makes before it calls the manager
PipelineSteps == Len(CheckOrder) + 1

\* the manager made the address listing and no other OS call
OnlyListed(s) ==
    /\ Len(s.trace) = PipelineSteps + 1
    /\ s.trace[Len(s.trace)] = "AddrList"

\* C7 as stated: of two successive AddAddress calls with the same link and
\* address the second leaves the addresses of the link as the first left
\* them and never returns an error.
C7_AsStated ==
    \A w \in Workers :
        LET s == slot[w]
        IN  Calls(s, "add") /\ Follows(s, "add") /\ s.pc = "done" =>
              /\ s.err = ""
              /\ addrs[s.link.Name] = s.before

\* C7 as amended: when the address is on the link after a first AddAddress
\* (it returned success, or only its announcement failed), a second
\* AddAddress with the same link and address makes the address listing and
\* no other OS call (no add, no announcement), leaves the addresses of the
\* link as they were, and returns success unless that listing fails.
C7_SecondAddIsNoop ==
    \A w \in Workers :
        LET s == slot[w]
        IN  /\ /\ Calls(s, "add") /\ Follows(s, "add")
               /\ AddressExists(s.before, s.address)
               =>
               /\ s.pc \in {"add:exists", "done"}
               /\ addrs[s.link.Name] = s.before
               /\ s.pc = "done" =>
                     /\ OnlyListed(s)
                     /\ s.err \in OSErrors \cup {""}
            /\ Calls(s, "add") /\ Follows(s, "add") /\ s.prev.err = ""
               => AddressExists(s.before, s.address)

\* C7 witness: an AddAddress put the address on the link and the AddAddress
\* after it found it there and returned success
C7_Witness ==
    \E w \in Workers :
        LET s == slot[w]
        IN  /\ Calls(s, "add") /\ Follows(s, "add") /\ s.pc = "done"
            /\ s.prev.err = "" /\ ~AddressExists(s.prev.before, s.address)
            /\ s.err = "" /\ OnlyListed(s)
            /\ AddressExists(addrs[s.link.Name], s.address)

\* C8 as stated: DeleteAddress for an address that is not on the link returns
\* success without calling the OS delete and leaves the addresses unchanged;
\* of two successive Delete calls the second does not error and leaves the
\* state of the first.
C8_AsStated ==
    \A w \in Workers :
        LET s == slot[w]
        IN  /\ Calls(s, "delete") /\ s.pc = "done"
            /\ ~AddressExists(s.before, s.address) \/ Follows(s, "delete")
            =>
            /\ s.err = ""
            /\ ~Made(s, {"AddrDel"})
            /\ addrs[s.link.Name] = s.before

\* C8 as amended: DeleteAddress for an address that is not on the link (as
\* after a Delete that returned success) makes the address listing and no
\* other OS call, leaves the addresses of the link unchanged, and returns
\* success unless that listing fails.
C8_DeleteAbsentIsNoop ==
    \A w \in Workers :
        LET s == slot[w]
        IN  /\ Calls(s, "delete") /\ ~AddressExists(s.before, s.address)
               =>
               /\ s.pc \in {"del:exists", "done"}
               /\ addrs[s.link.Name] = s.before
               /\ s.pc = "done" =>
                     /\ OnlyListed(s)
                     /\ s.err \in OSErrors \cup {""}
            /\ Calls(s, "delete") /\ Follows(s, "delete") /\ s.prev.err = ""
               => ~AddressExists(s.before, s.address)

\* C8 witness: a Delete removed the address and the Delete after it found it
\* gone and returned success
C8_Witness ==
    \E w \in Workers :
        LET s == slot[w]
        IN  /\ Calls(s, "delete") /\ Follows(s, "delete") /\ s.pc = "done"
            /\ s.prev.err = "" /\ AddressExists(s.prev.before, s.address)
            /\ s.err = "" /\ OnlyListed(s)

\* C9: after AddAddress returned success the address is on the link; after a
\* following DeleteAddress returned success it is not, and the addresses of
\* the link are those before the Add when the address was absent then.
C9_RoundTrip ==
    \A w \in Workers :
        LET s == slot[w]
        IN  /\ Calls(s, "add") /\ s.pc = "done" /\ s.err = ""
               => AddressExists(addrs[s.link.Name], s.address)
            /\ Calls(s, "delete") /\ s.pc = "done" /\ s.err = ""
               => ~AddressExists(addrs[s.link.Name], s.address)
            /\ /\ Calls(s, "delete") /\ s.pc = "done" /\ s.err = ""
               /\ Follows(s, "add") /\ s.prev.err = ""
               /\ ~AddressExists(s.prev.before, s.address)
               => addrs[s.link.Name] = s.prev.before

\* C9 witness: an address was added to a link that held another one and
\* deleted again
C9_Witness ==
    \E w \in Workers :
        LET s == slot[w]
        IN  /\ Calls(s, "delete") /\ s.pc = "done" /\ s.err = ""
            /\ Follows(s, "add") /\ s.prev.err = ""
            /\ ~AddressExists(s.prev.before, s.address)
            /\ s.prev.before # {}
            /\ Made(s, {"AddrDel"})
            /\ addrs[s.link.Name] = s.prev.before

\* the OS add of the call succeeded and the announcement failed
AnnouncementFailed(s) ==
    /\ Calls(s, "add") /\ s.pc = "done"
    /\ Made(s, {"Serialize"})
    /\ s.err # ""

\* C10: when the OS add succeeded and the announcement failed, AddAddress
\* returns the announcement error, the answer is 500 "Failed to add cidr
\* address to interface: <detail>\n", and the address stays on the link.
C10_NoRollback ==
    \A w \in Workers :
        LET s == slot[w]
        IN  AnnouncementFailed(s) =>
              /\ s.resp = [status |-> 500,
                           body |-> "Failed to add cidr address to interface: "
                                       \o s.err \o "\n"]
              /\ AddressExists(addrs[s.link.Name], s.address)
              /\ ~AddressExists(s.before, s.address)

\* C10 witness: the send of the frame failed after the address was added
C10_Witness ==
    \E w \in Workers :
        /\ AnnouncementFailed(slot[w])
        /\ Made(slot[w], {"Sendto"})
        /\ slot[w].address \in addrs[slot[w].link.Name]

(***************************************************************************)
(* The policy matcher on its own: a policy list, an interface name and an  *)
(* address are drawn, Allows is applied to every policy of the list and    *)
(* the policy check of handleRequest to the list.                          *)
(***************************************************************************)
EAny1 == [bol |-> TRUE, body |-> <<"e", ".*", "1">>, eol |-> TRUE]

ProbeNetworks ==
    { Text("v6", 48, 2), Text("v6", 50, 2), Text("v6", 48, 3), Text("v6", 32, 1),
      Text("v6", 0, 0), Text("v4", 12, 2), Text("v4", 12, 3), Text("v4", 8, 1),
      Text("v4", 0, 0) }

ProbePolicies ==
    { Policy(n, re) : n \in ProbeNetworks, re \in {DotStar, OnlyE0, AnyE0, EAny1} }

ProbePolicyLists ==
    { <<p>> : p \in ProbePolicies }
    \cup { <<p, q>> : p \in ProbePolicies,
                      q \in {Policy(Text("v6", 48, 3), OnlyE0),
                             Policy(Text("v4", 0, 0), DotStar)} }

ProbeNames == {E0, E01, X, <<"e">>}

ProbeAddresses ==
    { Text("v6", 50, 2), Text("v6", 50, 3), Text("v6", 50, 1), Text("v6", 20, 2),
      Text("v6", 12, 2), Text("v6", 0, 0), Text("v4", 13, 2), Text("v4", 13, 3),
      Text("v4", 13, 1), Text("v4", 3, 2), Text("v4", 0, 0) }

InitAllows ==
    /\ policies = <<>>
    /\ links = HostLinks
    /\ addrs \in InitialAddrs
    /\ sent = {}
    /\ slot = [w \in Workers |-> IdleSlot]
    /\ probe \in { [NoProbe EXCEPT !.pc = "drawn", !.pol = pl, !.name = n, !.text = a] :
                     pl \in ProbePolicyLists, n \in ProbeNames, a \in ProbeAddresses }

\* Allows on every policy of the list, and handleRequest's policy check
EvaluateAllows ==
    /\ probe.pc = "drawn"
    /\ LET address == ParseAddress(probe.text).addr
       IN  probe' = [probe EXCEPT
                !.pc = "evaluated",
                !.allowed = [i \in 1..Len(probe.pol) |->
                                Allows(probe.pol[i], probe.name, address)],
                !.outcome = CheckPolicy(probe.pol, links, "add",
                                        [Address |-> probe.text,
                                         InterfaceName |-> probe.name],
                                        address, <<>>)]
    /\ UNCHANGED <<policies, links, addrs, sent, slot>>

NextAllows == EvaluateAllows

SpecAllows == InitAllows /\ [][NextAllows]_vars

\* a pattern matches the whole of s
FullMatch(re, s) == MatchHere(re.body, s)

\* a pattern matches some stretch of s, at the start of s when it begins
\* with ^ and up to the end of s when it ends with $
SearchMatch(re, s) ==
    \E from \in 1..(Len(s) + 1) : \E to \in (from - 1)..Len(s) :
        /\ re.bol => from = 1
        /\ re.eol => to = Len(s)
        /\ FullMatch(re, SubSeq(s, from, to))

\* the prefix length of a mask and the family it belongs to
PrefixLength(mask) == Cardinality({i \in DOMAIN mask : mask[i] = 1})
Family(mask) == IF Len(mask) = V4Bits THEN "v4" ELSE "v6"

\* the network of an address under a prefix length: its leading bits
Network(ip, ones) == <<ip.fam, ip.val \div Pow2(IPBits(ip.fam) - ones)>>

\* the three conditions on the networks of a policy and an address
SamePrefixAndNetwork(ap, address) ==
    /\ PrefixLength(ap.IPNetwork.Mask) = PrefixLength(address.Mask)
    /\ Network(ap.IPNetwork.IP, PrefixLength(ap.IPNetwork.Mask))
         = Network(address.IP, PrefixLength(ap.IPNetwork.Mask))

\* C5 as stated: Allows is true iff the pattern matches the whole interface
\* name, the prefix lengths are equal and the masked networks are equal.
C5_AsStated ==
    probe.pc = "evaluated" =>
        \A i \in 1..Len(probe.pol) :
            probe.allowed[i] <=>
                /\ FullMatch(probe.pol[i].InterfaceNameRegex, probe.name)
                /\ SamePrefixAndNetwork(probe.pol[i], ParseAddress(probe.text).addr)

\* C5 as amended: Allows is true iff the pattern matches somewhere in the
\* interface name (the whole name only when the pattern is anchored with ^
\* and $), the prefix lengths are equal and the masked networks are equal.
C5_AllowsIffSearchMatchAndSameNetwork ==
    probe.pc = "evaluated" =>
        \A i \in 1..Len(probe.pol) :
            probe.allowed[i] <=>
                /\ SearchMatch(probe.pol[i].InterfaceNameRegex, probe.name)
                /\ SamePrefixAndNetwork(probe.pol[i], ParseAddress(probe.text).addr)

\* C5 witness: an unanchored pattern allowed a longer interface name that
\* contains a match
C5_Witness ==
    /\ probe.pc = "evaluated"
    /\ probe.pol[1].InterfaceNameRegex = AnyE0 /\ probe.name = E01
    /\ probe.allowed[1]

\* C6: a policy and an address whose prefix lengths differ (or of different
\* families) never match, however the network bits compare, and the policy
\* check answers 403 when no other policy of the list allows the pair.
C6_ExactPrefixLength ==
    probe.pc = "evaluated" =>
        LET address == ParseAddress(probe.text).addr
            differs(i) ==
                \/ PrefixLength(probe.pol[i].IPNetwork.Mask) # PrefixLength(address.Mask)
                \/ Family(probe.pol[i].IPNetwork.Mask) # Family(address.Mask)
        IN  \A i \in 1..Len(probe.pol) :
                differs(i) =>
                    /\ ~probe.allowed[i]
                    /\ (\A j \in 1..Len(probe.pol) : j # i => ~probe.allowed[j]) =>
                          /\ ~probe.outcome.call
                          /\ probe.outcome.resp =
                               [status |-> 403,
                                body |-> "Rejected cidr address for interface, because no matching policy was found\n"]

\* C6 witness: an address inside the network of the policy but with a longer
\* prefix, on an interface the pattern matches, was rejected
C6_Witness ==
    /\ probe.pc = "evaluated"
    /\ probe.pol = << Policy(Text("v6", 48, 2), DotStar) >>
    /\ probe.text = Text("v6", 50, 3)
    /\ ~probe.allowed[1]
    /\ probe.outcome.resp.status = 403

(***************************************************************************)
(* The announcement within AddAddress.                                     *)
(***************************************************************************)
\* the positions of the trace at which call was made
Positions(s, call) == {i \in 1..Len(s.trace) : s.trace[i] = call}

\* the steps AdvertiseAddress makes
AnnounceCalls == {"Serialize", "Socket", "Bind", "Sendto", "Close"}

\* C11: within one call of AddAddress the announcement is attempted at most
\* once, directly after the OS add of that call succeeded, and always then;
\* it is for the link and address of the call; no announcement is attempted
\* when the address was found on the link, when the address listing or the
\* OS add failed, or in DeleteAddress.
C11_AnnouncedOnceAfterAdd ==
    \A w \in Workers :
        LET s == slot[w]
        IN  /\ Cardinality(Positions(s, "Serialize")) <= 1
            /\ Cardinality(Positions(s, "Sendto")) <= 1
            /\ Cardinality(Positions(s, "AddrAdd")) <= 1
            /\ \A i \in 1..Len(s.trace) :
                  s.trace[i] \in AnnounceCalls =>
                      /\ s.action = "add"
                      /\ \E j \in Positions(s, "AddrAdd") :
                            /\ j < i
                            /\ s.trace[j + 1] = "Serialize"
                      /\ AddressExists(addrs[s.link.Name], s.address)
                      /\ ~AddressExists(s.before, s.address)
            /\ s.pc = "add:advertise" =>
                  /\ s.trace[Len(s.trace)] = "AddrAdd"
                  /\ AddressExists(addrs[s.link.Name], s.address)
            /\ s.pc = "done" /\ Made(s, {"AddrAdd"}) =>
                  \/ Made(s, {"Serialize"})
                  \/ s.err # "" /\ s.trace[Len(s.trace)] = "AddrAdd"
            /\ s.pc = "done" /\ Made(s, {"Sendto"}) /\ s.err = "" =>
                  Frame(s.link, s.address) \in sent
            /\ Calls(s, "delete") => ~Made(s, AnnounceCalls)
            /\ Calls(s, "add") /\ AddressExists(s.before, s.address) =>
                  ~Made(s, AnnounceCalls)

\* C11 witness: a call of AddAddress listed the addresses, added the address
\* and sent its announcement, each once
C11_Witness ==
    \E w \in Workers :
        LET s == slot[w]
        IN  /\ Calls(s, "add") /\ s.pc = "done" /\ s.err = ""
            /\ SubSeq(s.trace, PipelineSteps + 1, Len(s.trace)) =
                  <<"AddrList", "AddrAdd", "Serialize", "Socket", "Bind", "Sendto", "Close">>
            /\ Frame(s.link, s.address) \in sent

(***************************************************************************)
(* Concurrent requests for the same interface and address.                 *)
(***************************************************************************)
\* worker w stands between its existence check and its OS mutation, and the
\* interface no longer is as the check found it
Overtaken(w) ==
    LET s == slot[w]
    IN  /\ s.pc \in {"add:mutate", "del:mutate"}
        /\ s.addressExists # AddressExists(addrs[s.link.Name], s.address)

\* the answer to a call the kernel refused
Refused(s) ==
    IF s.action = "add"
    THEN HttpError("Failed to add cidr address to interface: file exists",
                   StatusInternalServerError)
    ELSE HttpError("Failed to delete cidr address from interface: cannot assign requested address",
                   StatusInternalServerError)

\* C12: the existence check and the OS mutation of AddAddress and of
\* DeleteAddress are separate steps without a lock.  A worker goes on to the
\* OS mutation on what its own check found (absent for Add, present for
\* Delete); when another request has changed the interface in between, the
\* mutation is still attempted, the kernel refuses it, and the request is
\* answered 500 with the OS error while the interface stays as the other
\* request left it.
C12_CheckThenMutateRaces ==
    [][\A w \in Workers :
          LET s == slot[w]
              t == slot'[w]
          IN  /\ s.pc = "add:mutate" => ~s.addressExists
              /\ s.pc = "del:mutate" => s.addressExists
              /\ Overtaken(w) /\ t # s =>
                    /\ t.pc = "done"
                    /\ t.trace = Append(s.trace, IF s.action = "add" THEN "AddrAdd"
                                                 ELSE "AddrDel")
                    /\ t.resp = Refused(s)
                    /\ addrs' = addrs
      ]_vars

\* C12 witness: two requests to add the same address to the same interface
\* both found it absent and both called the OS add; one was answered 200 and
\* the other 500 "file exists"
C12_Witness ==
    \E w, v \in Workers :
        LET s == slot[w]
            t == slot[v]
        IN  /\ w # v
            /\ s.pc = "done" /\ t.pc = "done"
            /\ s.req = t.req /\ s.req.path = "/add"
            /\ ~s.addressExists /\ ~t.addressExists
            /\ Made(s, {"AddrAdd"}) /\ Made(t, {"AddrAdd"})
            /\ s.resp = Fprintf("Successfully added address to interface\n")
            /\ t.resp = Refused(t)

\* the same for two requests to delete: both found the address present and
\* both called the OS delete; one was answered 200 and the other 500
DeleteRace ==
    \E w, v \in Workers :
        LET s == slot[w]
            t == slot[v]
        IN  /\ w # v
            /\ s.pc = "done" /\ t.pc = "done"
            /\ s.req = t.req /\ s.req.path = "/delete"
            /\ s.addressExists /\ t.addressExists
            /\ Made(s, {"AddrDel"}) /\ Made(t, {"AddrDel"})
            /\ s.resp = Fprintf("Successfully deleted address from interface\n")
            /\ t.resp = Refused(t)

\* one request at a time: the kernel never refuses a mutation for the state
\* of the interface
NeverRefusedInSequence ==
    \A w \in Workers :
        /\ ~Overtaken(w)
        /\ slot[w].err \notin {"file exists", "cannot assign requested address"}

(***************************************************************************)
(* The single checks of handleRequest.                                     *)
(***************************************************************************)
\* a POST to /add or /delete that reached handleRequest and was answered
AnsweredPost(s) ==
    /\ Handled(s) /\ s.pc = "done"
    /\ s.req.path \in {"/add", "/delete"}
    /\ s.req.method = "POST"

\* C13 as stated: a POST to /add or /delete with an absent body (r.Body nil)
\* or an empty one (no bytes) is answered 400 "Request body is empty\n"
\* whatever its content type.
C13_AsStated ==
    \A w \in Workers :
        LET s == slot[w]
        IN  AnsweredPost(s) /\ s.req.body.kind \in {"nil", "empty"} =>
              s.resp = [status |-> 400, body |-> "Request body is empty\n"]

\* C14: a request that reached handleRequest with a path other than /add and
\* /delete is answered 404 "Path not found\n" after the path check alone,
\* whatever its method, content type and body and whatever the policies are.
C14_UnknownPathNotFound ==
    \A w \in Workers :
        LET s == slot[w]
        IN  Handled(s) /\ s.req.path \notin {"/add", "/delete"} =>
              /\ s.pc = "done"
              /\ s.resp = [status |-> 404, body |-> "Path not found\n"]
              /\ s.trace = <<"auth", "path">>
              /\ s.action = ""

\* C14 witness: a GET without body for an unknown path, no policy configured
C14_Witness ==
    \E w \in Workers :
        LET s == slot[w]
        IN  /\ Handled(s) /\ s.req.path = "/invalid"
            /\ s.req.method = "GET" /\ s.req.body.kind = "nil"
            /\ policies = <<>>
            /\ s.resp.status = 404

\* C15: a request for /add or /delete with a method other than POST is
\* answered 405 "Method Not Allowed\n" after the path and method checks
\* alone: body, content type and policies are not looked at.
C15_MethodNotAllowed ==
    \A w \in Workers :
        LET s == slot[w]
        IN  /\ Handled(s) /\ s.req.path \in {"/add", "/delete"}
            /\ s.req.method # "POST"
            =>
            /\ s.pc = "done"
            /\ s.resp = [status |-> 405, body |-> "Method Not Allowed\n"]
            /\ s.trace = <<"auth", "path", "method">>
            /\ s.action = ""

\* C15 witness: a GET for /delete without body, no policy configured
C15_Witness ==
    \E w \in Workers :
        LET s == slot[w]
        IN  /\ Handled(s) /\ s.req.path = "/delete"
            /\ s.req.method = "GET" /\ s.req.body.kind = "nil"
            /\ policies = <<>>
            /\ s.resp.status = 405

\* C16: a POST to /add or /delete with a body whose Content-Type header is
\* not the string application/json (another type, no header) is answered 400
\* "Invalid content type (expected \"application/json\")\n" and its body is
\* not parsed; with the header application/json the request passes the
\* check and its body is parsed next.
C16_ContentType ==
    \A w \in Workers :
        LET s == slot[w]
        IN  /\ Handled(s) /\ s.req.path \in {"/add", "/delete"}
            /\ s.req.method = "POST" /\ s.req.body.kind # "nil"
            =>
            IF s.req.ctype # "application/json"
            THEN /\ s.pc = "done"
                 /\ s.resp = [status |-> 400,
                              body |-> "Invalid content type (expected \"application/json\")\n"]
                 /\ s.trace = <<"auth", "path", "method", "body", "content-type">>
            ELSE /\ SubSeq(s.trace, 1, 6) =
                       <<"auth", "path", "method", "body", "content-type", "json">>
                 /\ s.resp.body # "Invalid content type (expected \"application/json\")\n"

\* C16 witness: a request with a well-formed body and no Content-Type header
C16_Witness ==
    \E w \in Workers :
        LET s == slot[w]
        IN  /\ Handled(s) /\ s.req.path = "/add" /\ s.req.method = "POST"
            /\ s.req.body.kind = "json" /\ s.req.body.interface_name = E0
            /\ ParseAddress(s.req.body.address).err = ""
            /\ s.req.ctype = ""
            /\ s.resp.status = 400
            /\ ~Made(s, {"json"})

\* a POST to /add or /delete whose body was decoded
Decoded(s) ==
    /\ Handled(s) /\ s.req.path \in {"/add", "/delete"}
    /\ s.req.method = "POST" /\ s.req.ctype = "application/json"
    /\ s.req.body.kind = "json"

AddressMissing == "Address (\"address\") is missing in request\n"
InterfaceNameMissing == "Interface name (\"interface_name\") is missing in request\n"

\* C17: a decoded body with an empty or missing address is answered 400
\* "Address (\"address\") is missing in request\n" whether or not it has an
\* interface name; the answer 400 "Interface name (\"interface_name\") is
\* missing in request\n" is given exactly to the decoded bodies with an
\* address and an empty or missing interface name.
C17_AddressBeforeInterfaceName ==
    \A w \in Workers :
        LET s == slot[w]
        IN  /\ Decoded(s) /\ s.req.body.address = EmptyText =>
                  /\ s.pc = "done"
                  /\ s.resp = [status |-> 400, body |-> AddressMissing]
            /\ Decoded(s) /\ s.req.body.address # EmptyText
                          /\ s.req.body.interface_name = <<>> =>
                  /\ s.pc = "done"
                  /\ s.resp = [status |-> 400, body |-> InterfaceNameMissing]
            /\ s.resp.body = InterfaceNameMissing =>
                  /\ Decoded(s)
                  /\ s.req.body.address # EmptyText
                  /\ s.req.body.interface_name = <<>>
            /\ s.resp.body = AddressMissing =>
                  Decoded(s) /\ s.req.body.address = EmptyText

\* C17 witness: the body {} was answered with the address message, and so
\* was a body with an interface name alone
C17_Witness ==
    \E w \in Workers :
        LET s == slot[w]
        IN  /\ Decoded(s) /\ s.req.body.address = EmptyText
            /\ s.req.body.interface_name = <<>>
            /\ s.resp.body = AddressMissing

C19_MissingInterfaceIsInternalError ==
    \A w \in Workers :
          LET s == slot[w]
          IN  /\ Handled(s) /\ FirstFailing(s.req) = Len(CheckOrder) =>
                    /\ s.pc = "done"
                    /\ s.resp = [status |-> 500,
                                 body |-> "Failed to retreive interface: "
                                             \o LinkByName(links, s.req.body.interface_name).err
                                             \o "\n"]
                    /\ s.action = ""
                    /\ Len(s.trace) = PipelineSteps
                    /\ ~Made(s, MutatingCalls \cup {"AddrList"})
              /\ \A i \in 1..Len(s.trace) :
                    s.trace[i] = "link" =>
                        /\ i > 1 /\ s.trace[i - 1] = "policy"
                        /\ ~Fails("policy", s.req)

\* C19 witness: an allowed address for an interface that does not exist was
\* refused on /delete
C19_Witness ==
    \E w \in Workers :
        LET s == slot[w]
        IN  /\ Handled(s) /\ s.req.path = "/delete"
            /\ s.req.body.interface_name = X
            /\ ~Fails("policy", s.req)
            /\ s.resp = [status |-> 500,
                         body |-> "Failed to retreive interface: Link not found\n"]

Added == Fprintf("Successfully added address to interface\n")
Deleted == Fprintf("Successfully deleted address from interface\n")

\* C20: a request that passed every check is answered 200 "Successfully
\* added address to interface\n" (on /add) or 200 "Successfully deleted
\* address from interface\n" (on /delete) exactly when AddAddress or
\* DeleteAddress returned no error, and 500 otherwise; handleRequest gives
\* no other 200; and after /add and then /delete with the same payload were
\* both answered 200 the address is not on the interface.
C20_SuccessAnswers ==
    \A w \in Workers :
        LET s == slot[w]
        IN  /\ Calls(s, "add") /\ s.pc = "done" =>
                  /\ s.req.path = "/add"
                  /\ s.err = "" <=> s.resp = Added
                  /\ s.err # "" <=> s.resp.status = 500
            /\ Calls(s, "delete") /\ s.pc = "done" =>
                  /\ s.req.path = "/delete"
                  /\ s.err = "" <=> s.resp = Deleted
                  /\ s.err # "" <=> s.resp.status = 500
            /\ Handled(s) /\ s.resp.status = 200 =>
                  /\ s.pc = "done" /\ s.action # "" /\ s.err = ""
                  /\ FirstFailing(s.req) = Len(CheckOrder) + 1
            /\ /\ Calls(s, "delete") /\ s.resp = Deleted
               /\ Follows(s, "add") /\ s.prev.err = ""
               => ~AddressExists(addrs[s.link.Name], s.address)

\* C20 witness: /add put the address on the interface and was answered 200,
\* /delete with the same payload took it off and was answered 200
C20_Witness ==
    \E w \in Workers :
        LET s == slot[w]
        IN  /\ Calls(s, "delete") /\ s.resp = Deleted
            /\ Follows(s, "add") /\ s.prev.err = ""
            /\ ~AddressExists(s.prev.before, s.address)
            /\ s.addressExists
            /\ SubSeq(s.trace, PipelineSteps + 1, Len(s.trace)) = <<"AddrList", "AddrDel">>
            /\ ~AddressExists(addrs[s.link.Name], s.address)

(***************************************************************************)
(* The health probe.                                                       *)
(***************************************************************************)
Healthy == Fprintf("Server is healthy and ready to serve\n")

\* C21: a request to /healthz is answered by handleHealthzRequest alone,
\* whatever certificate came with it: 200 for GET, 405 "Method Not
\* Allowed\n" for any other method; authenticateRequest and handleRequest
\* are not run for it, no policy is consulted and no address changes; no
\* other path is answered by handleHealthzRequest.
C21_HealthzUnauthenticated ==
    \A w \in Workers :
        LET s == slot[w]
        IN  /\ s.pc # "idle" /\ s.req.path = "/healthz" =>
                  /\ s.pc = "done"
                  /\ s.trace = <<"healthz">>
                  /\ s.action = ""
                  /\ s.req.method = "GET" => s.resp = Healthy
                  /\ s.req.method # "GET" =>
                        s.resp = [status |-> 405, body |-> "Method Not Allowed\n"]
            /\ s.pc # "idle" /\ s.req.path # "/healthz" =>
                  /\ s.trace[1] = "auth"
                  /\ ~Made(s, {"healthz"})

\* C21 witness: a GET to /healthz without a client certificate was answered
\* 200
C21_Witness ==
    \E w \in Workers :
        LET s == slot[w]
        IN  /\ s.pc = "done" /\ s.req.path = "/healthz"
            /\ s.req.method = "GET" /\ s.req.cert = "none"
            /\ s.resp.status = 200

(***************************************************************************)
(* No retries, one outcome.                                                *)
(***************************************************************************)
\* the steps of a request that reach outside the process
OSCalls ==
    {"link", "AddrList", "AddrAdd", "AddrDel", "Serialize", "Socket", "Bind",
     "Sendto", "Close"}

\* the outcomes of handleRequest
Outcomes == {200, 400, 403, 404, 405, 500}

\* what holds of a request handled by handleRequest at any moment
OnceAndTerminal(s) ==
    /\ \A c \in OSCalls : Cardinality(Positions(s, c)) <= 1
    /\ s.pc \notin {"idle", "done"} => s.resp = NoResp /\ s.err = ""
    /\ s.pc = "done" =>
          /\ s.resp.status \in Outcomes
          /\ s.err # "" =>
                /\ s.resp.status = 500
                /\ s.resp.body \in
                      {"Failed to add cidr address to interface: " \o s.err \o "\n",
                       "Failed to delete cidr address from interface: " \o s.err \o "\n"}
                /\ s.trace[Len(s.trace)] \in OSCalls
                /\ s.trace[Len(s.trace)] \in {"Close", "Socket", "Serialize"}
                      => Made(s, {"AddrAdd"})

\* C22: within one request handled by handleRequest the link resolution, the
\* address listing, the OS add or delete and each step of the announcement
\* are made at most once; a failure of one of them ends the request with
\* 500 and the description of the failure; a request has no answer while it
\* runs and one answer from 200, 400, 403, 404, 405, 500 when it ends, and
\* that answer and the calls made do not change afterwards.
C22_NoRetryOneOutcome ==
    [][\A w \in Workers :
          LET s == slot[w]
              t == slot'[w]
          IN  /\ Handled(t) => OnceAndTerminal(t)
              /\ s.pc = "done" => t = s \/ t.pc = "idle"
              /\ s.pc \notin {"idle", "done"} /\ t # s =>
                    /\ t.req = s.req
                    /\ Len(t.trace) > Len(s.trace)
                    /\ SubSeq(t.trace, 1, Len(s.trace)) = s.trace
                    /\ t.err # "" => t.pc = "done"
      ]_vars

\* C22 witness: the send of the announcement failed; it was made once and
\* the request ended with 500 and the error
C22_Witness ==
    \E w \in Workers :
        LET s == slot[w]
        IN  /\ Handled(s) /\ s.pc = "done" /\ s.err \in OSErrors
            /\ Cardinality(Positions(s, "Sendto")) = 1
            /\ s.trace[Len(s.trace)] = "Close"
            /\ s.resp.status = 500

(***************************************************************************)
(* The announcement frames.                                                *)
(***************************************************************************)
\* the requests whose call of AddAddress reached AdvertiseAddress
Announcing(s) ==
    s.pc = "add:advertise" \/ (s.pc = "done" /\ Made(s, {"Serialize"}))

\* the override bit of the flag byte of a Neighbor Advertisement
OverrideSet(flags) == (flags \div 32) % 2 = 1

\* the frame is an ARP announcement of ip from the hardware address mac
IsGratuitousARP(f, mac, ip) ==
    /\ f.eth.SrcMAC = mac
    /\ f.eth.DstMAC = <<255, 255, 255, 255, 255, 255>>
    /\ f.eth.EthernetType = "ARP"
    /\ f.msg.Type = "ARPRequest"
    /\ f.msg.SourceHwAddress = mac
    /\ f.msg.DstHwAddress = <<255, 255, 255, 255, 255, 255>>
    /\ f.msg.SourceProtAddress = ip
    /\ f.msg.DstProtAddress = ip

\* C23: for an IPv4 address AdvertiseAddress builds an Ethernet frame from
\* the link's hardware address to broadcast with EtherType ARP carrying an
\* ARP request whose sender hardware address is the link's, whose target
\* hardware address is broadcast and whose sender and target protocol
\* addresses both are the new address; every ARP frame sent is of this form
\* for an interface of the host.
C23_GratuitousARP ==
    /\ \A w \in Workers :
          LET s == slot[w]
          IN  Announcing(s) /\ s.address.IP.fam = "v4" =>
                /\ IsGratuitousARP(Frame(s.link, s.address), s.link.HardwareAddr,
                                   s.address.IP)
                /\ (s.pc = "done" /\ s.err = "") => Frame(s.link, s.address) \in sent
    /\ \A f \in sent :
          f.eth.EthernetType = "ARP" \/ f.msg.SourceProtAddress.fam = "v4" =>
              \E l \in links :
                  /\ f.ifindex = l.Index
                  /\ f.msg.SourceProtAddress.fam = "v4"
                  /\ IsGratuitousARP(f, l.HardwareAddr, f.msg.DstProtAddress)

\* C23 witness: the announcement of an IPv4 address was sent
C23_Witness ==
    \E w \in Workers :
        LET s == slot[w]
        IN  /\ s.pc = "done" /\ s.err = "" /\ Made(s, {"Sendto"})
            /\ s.address.IP.fam = "v4"
            /\ \E f \in sent : IsGratuitousARP(f, s.link.HardwareAddr, s.address.IP)

\* the frame is an unsolicited Neighbor Advertisement of ip from the hardware
\* address mac
IsUnsolicitedNA(f, mac, ip) ==
    /\ f.eth.SrcMAC = mac
    /\ f.eth.DstMAC = <<51, 51, 0, 0, 0, 1>>
    /\ f.eth.EthernetType = "IPv6"
    /\ f.ip.SrcIP = ip
    /\ f.ip.DstIP = "ff02::1"
    /\ f.ip.HopLimit = 255
    /\ f.ip.NextHeader = "ICMPv6"
    /\ f.msg.Type = "NeighborAdvertisement"
    /\ OverrideSet(f.msg.Flags)
    /\ f.msg.TargetAddress = ip
    /\ Len(f.msg.Options) = 1
    /\ f.msg.Options[1] = [Type |-> "TargetAddress", Data |-> mac]

\* C24: for an address that is not IPv4 AdvertiseAddress builds an Ethernet
\* frame to 33:33:00:00:00:01 with EtherType IPv6, an IPv6 header from the
\* new address to the link-local all-nodes address with hop limit 255 and
\* next header ICMPv6, and a Neighbor Advertisement with the override flag,
\* the new address as target and one Target-Link-Layer-Address option
\* holding the link's hardware address; every IPv6 frame sent is of this
\* form for an interface of the host.
C24_UnsolicitedNA ==
    /\ \A w \in Workers :
          LET s == slot[w]
          IN  Announcing(s) /\ s.address.IP.fam # "v4" =>
                /\ IsUnsolicitedNA(Frame(s.link, s.address), s.link.HardwareAddr,
                                   s.address.IP)
                /\ (s.pc = "done" /\ s.err = "") => Frame(s.link, s.address) \in sent
    /\ \A f \in sent :
          f.eth.EthernetType # "ARP" =>
              \E l \in links :
                  /\ f.ifindex = l.Index
                  /\ f.msg.TargetAddress.fam = "v6"
                  /\ IsUnsolicitedNA(f, l.HardwareAddr, f.msg.TargetAddress)

\* C24 witness: the announcement of an IPv6 address was sent
C24_Witness ==
    \E w \in Workers :
        LET s == slot[w]
        IN  /\ s.pc = "done" /\ s.err = "" /\ Made(s, {"Sendto"})
            /\ s.address.IP.fam = "v6"
            /\ \E f \in sent : IsUnsolicitedNA(f, s.link.HardwareAddr, s.address.IP)

(***************************************************************************)
(* The socket of an announcement.                                          *)
(***************************************************************************)
\* the steps AdvertiseAddress made for a request that has ended
AnnounceSteps(s) ==
    LET first == CHOOSE i \in Positions(s, "Serialize") : TRUE
    IN  SubSeq(s.trace, first, Len(s.trace))

\* the sockets of the request that are open: opened and not closed ("Socket"
\* as the last step with an error is a socket call that failed)
OpenSockets(s) ==
    LET opened == IF s.err # "" /\ s.trace[Len(s.trace)] = "Socket" THEN 0
                  ELSE Cardinality(Positions(s, "Socket"))
    IN  opened - Cardinality(Positions(s, "Close"))

\* the EtherType a socket protocol stands for
EtherTypeOf(proto) == IF proto = "ETH_P_ARP" THEN "ARP" ELSE "IPv6"

\* C25: a call of AdvertiseAddress that encoded its frame opens one socket,
\* binds it to the interface index of the link and the EtherType of the
\* frame, sends the frame at most once and closes the socket whether the
\* bind failed, the send failed or the send succeeded; when the encoding
\* fails it opens no socket; no socket is open when it has returned, and the
\* error of the failing step is the error of the request.
C25_SocketOpenedSentOnceClosed ==
    \A w \in Workers :
        LET s == slot[w]
            frame == Frame(s.link, s.address)
        IN  /\ Announcing(s) =>
                  /\ frame.ifindex = s.link.Index
                  /\ EtherTypeOf(frame.proto) = frame.eth.EthernetType
            /\ s.pc = "done" /\ Made(s, {"Serialize"}) =>
                  /\ OpenSockets(s) = 0
                  /\ IF SerializeError(frame) # ""
                     THEN /\ AnnounceSteps(s) = <<"Serialize">>
                          /\ s.err = SerializeError(frame)
                     ELSE \/ /\ AnnounceSteps(s) = <<"Serialize", "Socket">>
                             /\ s.err \in OSErrors
                          \/ /\ AnnounceSteps(s) = <<"Serialize", "Socket", "Bind", "Close">>
                             /\ s.err \in OSErrors
                          \/ /\ AnnounceSteps(s) =
                                   <<"Serialize", "Socket", "Bind", "Sendto", "Close">>
                             /\ s.err \in OSErrors \cup {""}
                  /\ s.err # "" =>
                        s.resp.body = "Failed to add cidr address to interface: "
                                         \o s.err \o "\n"
                  /\ s.err = "" => frame \in sent
            /\ s.pc = "done" /\ ~Made(s, {"Serialize"}) =>
                  ~Made(s, {"Socket", "Bind", "Sendto", "Close"})

\* C25 witness: the bind failed and the socket was closed without a send
C25_Witness ==
    \E w \in Workers :
        LET s == slot[w]
        IN  /\ s.pc = "done" /\ Made(s, {"Serialize"})
            /\ AnnounceSteps(s) = <<"Serialize", "Socket", "Bind", "Close">>
            /\ s.err \in OSErrors
            /\ OpenSockets(s) = 0

(***************************************************************************)
(* Reading the configuration on its own: a working directory, the path of  *)
(* a configuration file and the document in it are drawn and               *)
(* ReadConfiguration is applied.                                           *)
(***************************************************************************)
AbsolutePath(parts) == [abs |-> TRUE, parts |-> parts]
RelativePath(parts) == [abs |-> FALSE, parts |-> parts]

WorkingDirectories == {AbsolutePath(<<"srv", "app">>), AbsolutePath(<<>>)}

ConfigFilePaths ==
    {RelativePath(<<"conf", "config.json">>), RelativePath(<<"..", "config.json">>),
     AbsolutePath(<<"etc", "ipam", "config.json">>)}

\* the values of a path field of the document
PathFields ==
    {Absent(EmptyPath), Field(EmptyPath), Field(RelativePath(<<"..", "ca.crt">>)),
     Field(AbsolutePath(<<"pki", "..", "ca.crt">>))}

PortFields == {Absent(0), Field(0), Field(8443)}

BadPattern == [bol |-> FALSE, body |-> <<"*">>, eol |-> FALSE]

PolicyDocument(network, pattern) ==
    [ip_network |-> network, interface_name_regex |-> pattern]

\* the values of the address_policies field of the document
PolicyListFields ==
    {Absent(<<>>), Field(<<>>),
     Field(<<PolicyDocument(Field(Text("v6", 48, 2)), Field(DotStar))>>),
     Field(<<PolicyDocument(Absent(EmptyText), Absent(DotStar))>>),
     Field(<<PolicyDocument(Field(Text("v4", 12, 2)), Absent(DotStar))>>),
     Field(<<PolicyDocument(Field(Text("v6", 48, 2)), Field(OnlyE0)),
             PolicyDocument(Field(Text("bad", 0, 2)), Field(BadPattern))>>),
     Field(<<PolicyDocument(Field(Text("v4", 12, 2)), Field(BadPattern))>>)}

Documents ==
    [port : PortFields,
     client_ca_certificate_path : PathFields,
     server_certificate_path : PathFields,
     server_key_path : PathFields,
     address_policies : PolicyListFields]

InitConfig ==
    /\ policies = <<>>
    /\ links = HostLinks
    /\ addrs \in InitialAddrs
    /\ sent = {}
    /\ slot = [w \in Workers |-> IdleSlot]
    /\ probe \in [pc : {"config"}, cwd : WorkingDirectories, path : ConfigFilePaths,
                  exists : BOOLEAN, doc : Documents,
                  result : {[config |-> NoConfig, err |-> ""]}]

\* the process starts: RunServer reads its configuration
ReadConfig ==
    /\ probe.pc = "config"
    /\ probe' = [probe EXCEPT
                   !.pc = "read",
                   !.result = ReadConfiguration(probe.cwd, probe.path, probe.exists,
                                                probe.doc)]
    /\ UNCHANGED <<policies, links, addrs, sent, slot>>

NextConfig == ReadConfig

SpecConfig == InitConfig /\ [][NextConfig]_vars

\* the document was read
ConfigRead == probe.pc = "read" /\ probe.exists

\* every policy of the document has a network that parses, or none, and a
\* pattern that compiles, or none
Decodes(doc) ==
    \A i \in 1..Len(doc.address_policies.value) :
        LET p == doc.address_policies.value[i]
        IN  /\ p.ip_network.present => ParseCIDR(p.ip_network.value).err = ""
            /\ p.interface_name_regex.present =>
                  Compile(p.interface_name_regex.value).err = ""

\* the rules of the configuration in their order, with their messages
Rules ==
    << [field |-> "port", msg |-> "The configuration is missing a port number"],
       [field |-> "client_ca_certificate_path",
        msg |-> "The configuration is missing a path to the client ca certificate"],
       [field |-> "server_certificate_path",
        msg |-> "The configuration is missing a path to the server certificate"],
       [field |-> "server_key_path",
        msg |-> "The configuration is missing a path to the server key"],
       [field |-> "address_policies",
        msg |-> "The configuration is missing address policies"] >>

\* whether the document violates rule k
Violates(doc, k) ==
    CASE k = 1 -> ~doc.port.present \/ doc.port.value = 0
      [] k = 2 -> ~doc.client_ca_certificate_path.present
                  \/ doc.client_ca_certificate_path.value = EmptyPath
      [] k = 3 -> ~doc.server_certificate_path.present
                  \/ doc.server_certificate_path.value = EmptyPath
      [] k = 4 -> ~doc.server_key_path.present
                  \/ doc.server_key_path.value = EmptyPath
      [] k = 5 -> ~doc.address_policies.present
                  \/ doc.address_policies.value = <<>>

WellFormed(p) == p.IPNetwork # NoNet /\ p.InterfaceNameRegex # NilRegexp

\* C27 as stated: a policy whose network is not a valid CIDR or whose
\* pattern does not compile makes ReadConfiguration fail with the parse
\* error, and every policy of a returned configuration is well-formed.
\* Violated: a policy that leaves out ip_network or interface_name_regex is
\* never handed to a parser, and the configuration is returned with the
\* zero network or the zero regular expression in it.
C27_AsStated ==
    ConfigRead =>
        /\ ~Decodes(probe.doc) =>
              /\ probe.result.config = NoConfig
              /\ probe.result.err = UnmarshalConfig(probe.doc).err
              /\ probe.result.err # ""
        /\ probe.result.err = "" =>
              \A i \in 1..Len(probe.result.config.AddressPolicies) :
                  WellFormed(probe.result.config.AddressPolicies[i])

\* the part of C27 that the code keeps: a network or a pattern that is
\* present and does not parse makes ReadConfiguration fail with the error
\* of the parser
C27_PresentButInvalidFails ==
    ConfigRead /\ ~Decodes(probe.doc) =>
        /\ probe.result.config = NoConfig
        /\ probe.result.err \in {"invalid CIDR address",
                                 "error parsing regexp: missing argument to repetition operator"}

\* a configuration was returned that holds a policy without a compiled
\* pattern
C27_ReturnedMalformed ==
    /\ ConfigRead
    /\ probe.result.err = ""
    /\ \E i \in 1..Len(probe.result.config.AddressPolicies) :
          ~WellFormed(probe.result.config.AddressPolicies[i])


\* the directory of the configuration file, written down from the claim:
\* the file's path, taken from the working directory when it is relative,
\* without its last element
ConfigDirectory ==
    LET file == IF probe.path.abs THEN probe.path.parts
                ELSE probe.cwd.parts \o probe.path.parts
        dir  == SubSeq(file, 1, Len(file) - 1)
    IN  AbsolutePath(CleanParts(dir, <<>>, TRUE))

\* the three paths of the document and of the returned configuration
PathPairs ==
    {<<probe.doc.client_ca_certificate_path.value,
       probe.result.config.ClientCACertificatePath>>,
     <<probe.doc.server_certificate_path.value,
       probe.result.config.ServerCertificatePath>>,
     <<probe.doc.server_key_path.value, probe.result.config.ServerKeyPath>>}

\* C28: in a returned configuration the three paths are absolute; a
\* relative path of the document is the path below the directory of the
\* configuration file, an absolute one is returned as it was written, and
\* AbsPath applied to a returned path gives that path again.
C28_PathsAbsolute ==
    (ConfigRead /\ probe.result.err = "") =>
        \A pair \in PathPairs :
            LET given == pair[1]
                got   == pair[2]
            IN  /\ IsAbs(got)
                /\ IsAbs(given) => got = given
                /\ ~IsAbs(given) =>
                      got = AbsolutePath(CleanParts(ConfigDirectory.parts \o given.parts,
                                                    <<>>, TRUE))
                /\ AbsPath(ConfigDirectory, got) = got

\* C28 witness: the configuration file was named relative to a working
\* directory that is not its own directory, and a relative path of the
\* document was resolved to another path than the working directory would
\* have given
C28_Witness ==
    /\ ConfigRead
    /\ probe.result.err = ""
    /\ ~probe.path.abs
    /\ ~IsAbs(probe.doc.client_ca_certificate_path.value)
    /\ IsAbs(probe.doc.server_key_path.value)
    /\ probe.result.config.ServerKeyPath = probe.doc.server_key_path.value
    /\ ConfigDirectory # probe.cwd
    /\ probe.result.config.ClientCACertificatePath
          # Clean(Join(probe.cwd, probe.doc.client_ca_certificate_path.value))


(***************************************************************************)
(* Parsing and printing an address on its own: a text is drawn,            *)
(* ParseAddress is applied and the result is printed with String.          *)
(***************************************************************************)
ParseTexts ==
    [host : [fam : {"v4", "v6", "bad", "empty"}, val : {0, 13, 50}],
     slash : BOOLEAN,
     prefix : {0, 2, V4Bits, V4Bits + 1, V6Bits, V6Bits + 1},
     form : {"canonical", "other"},
     rest : {<<>>, <<"">>, <<"e0">>, <<"e0", "x">>}]

InitParse ==
    /\ policies = <<>>
    /\ links = HostLinks
    /\ addrs \in InitialAddrs
    /\ sent = {}
    /\ slot = [w \in Workers |-> IdleSlot]
    /\ probe \in [pc : {"text"}, text : ParseTexts,
                  result : {[addr |-> NoNet, label |-> "", err |-> ""]},
                  printed : {EmptyText}]

\* ParseAddress on the text, and String on what it returned
ParseAndPrint ==
    /\ probe.pc = "text"
    /\ \E r \in {ParseAddress(probe.text)} :
          probe' = [probe EXCEPT
                      !.pc = "parsed",
                      !.result = r,
                      !.printed = IF r.err = "" THEN AddrString(r.addr, r.label)
                                  ELSE EmptyText]
    /\ UNCHANGED <<policies, links, addrs, sent, slot>>

NextParse == ParseAndPrint

SpecParse == InitParse /\ [][NextParse]_vars

\* the word is an address, a slash and a prefix length that the family of
\* the address admits
IsIPSlashPrefix(word) ==
    /\ word.host.fam \in {"v4", "v6"}
    /\ word.host.val < Pow2(IPBits(word.host.fam))
    /\ word.slash
    /\ word.prefix <= IPBits(word.host.fam)

\* C29 as stated: ParseAddress accepts exactly the texts of the form
\* IP/prefix with a prefix the family admits and rejects every other text
\* with "invalid CIDR address"; an accepted address keeps its host bits and
\* printing it gives the text back.
\* Violated: a text that goes on after a space is accepted when the word
\* before the space is IP/prefix, and a text that is not spelled as Go
\* prints it does not come back.
C29_AsStated ==
    probe.pc = "parsed" =>
        /\ probe.result.err = "" <=>
              (probe.text.rest = <<>> /\ IsIPSlashPrefix(probe.text))
        /\ probe.result.err # "" => probe.result.err = "invalid CIDR address"
        /\ probe.result.err = "" =>
              /\ probe.result.addr.IP = probe.text.host
              /\ probe.printed = probe.text

\* what the code keeps of C29: the word before the first space decides, a
\* rejection carries "invalid CIDR address", an accepted address keeps its
\* host bits, and a text without a space that is spelled as Go prints it
\* comes back from printing
C29_FirstWordDecides ==
    probe.pc = "parsed" =>
        /\ probe.result.err = "" <=> IsIPSlashPrefix(probe.text)
        /\ probe.result.err # "" => probe.result.err = "invalid CIDR address"
        /\ probe.result.err = "" =>
              /\ probe.result.addr.IP = probe.text.host
              /\ MaskSize(probe.result.addr.Mask) = probe.text.prefix
              /\ (probe.text.rest = <<>> /\ probe.text.form = "canonical")
                    => probe.printed = probe.text

\* a text with a label after a space was accepted
C29_AcceptedWithLabel ==
    /\ probe.pc = "parsed"
    /\ probe.text.rest # <<>>
    /\ probe.result.err = ""
    /\ probe.result.addr.IP.val # IPMask(probe.result.addr.IP, probe.result.addr.Mask).val


\* C30: when the listing of the addresses of the link fails, AddressExists
\* returns that error and AddAddress or DeleteAddress returns it after the
\* listing alone: no netlink.AddrAdd, no netlink.AddrDel and no step of the
\* announcement is made, the addresses of the link are those the call
\* found, and handleRequest answers 500 with the error in the message.
C30_ListingFailure ==
    \A w \in Workers :
        LET s == slot[w]
        IN  s.existsErr # "" =>
                /\ s.pc = "done"
                /\ s.action \in {"add", "delete"}
                /\ ~s.addressExists
                /\ s.err = s.existsErr
                /\ OnlyListed(s)
                /\ ~Made(s, MutatingCalls \cup AnnounceCalls)
                /\ addrs[s.link.Name] = s.before
                /\ s.resp.status = StatusInternalServerError
                /\ s.resp.body =
                      (IF s.action = "add"
                       THEN "Failed to add cidr address to interface: "
                       ELSE "Failed to delete cidr address from interface: ")
                      \o s.existsErr \o "\n"

\* C30 witness: the deletion of an address the interface holds failed at
\* the listing, and the address is still there
C30_Witness ==
    \E w \in Workers :
        LET s == slot[w]
        IN  /\ s.pc = "done"
            /\ s.action = "delete"
            /\ s.existsErr \in OSErrors
            /\ s.address \in addrs[s.link.Name]
            /\ s.resp.status = StatusInternalServerError


\* the address of the call is on its link and no frame announcing it on
\* that link was ever sent: every announcement made for it failed
AssignedUnannounced(s) ==
    /\ AddressExists(addrs[s.link.Name], s.address)
    /\ Frame(s.link, s.address) \notin sent

\* the existence check of an AddAddress that finds its address assigned and
\* unannounced
RepeatedAdd(w) ==
    /\ slot[w].pc = "add:exists"
    /\ AssignedUnannounced(slot[w])
    /\ slot'[w] # slot[w]

\* C31 as stated: an Add for an address that is assigned and was never
\* announced returns success without an announcement.
\* Violated: the listing of the addresses can fail, and the Add returns
\* that error.
C31_AsStated ==
    [][\A w \in Workers :
          RepeatedAdd(w) =>
              /\ slot'[w].pc = "done"
              /\ slot'[w].err = ""
              /\ slot'[w].resp = Fprintf("Successfully added address to interface\n")
              /\ sent' = sent]_vars

\* C31 as amended: while an address stays assigned after an Add that put
\* it on the link and failed to announce it, every later Add of the same
\* link and address makes the address listing and nothing else: no frame is
\* sent, the addresses stay as they are, and the Add answers success unless
\* the listing fails, in which case it returns that error.  The address
\* stays assigned and unannounced (only a Delete followed by an Add
\* announces it).
C31_RepeatedAddNeverAnnounces ==
    [][\A w \in Workers :
          RepeatedAdd(w) =>
              /\ slot'[w].pc = "done"
              /\ OnlyListed(slot'[w])
              /\ slot'[w].err = slot'[w].existsErr
              /\ slot'[w].err = "" =>
                    slot'[w].resp = Fprintf("Successfully added address to interface\n")
              /\ sent' = sent
              /\ addrs' = addrs
              /\ AssignedUnannounced(slot'[w])]_vars

\* C31 witness: an Add put the address on the link and its announcement
\* failed; the Add after it reported success, the address is assigned and
\* no frame for it was ever sent
C31_Witness ==
    \E w \in Workers :
        LET s == slot[w]
        IN  /\ Calls(s, "add") /\ s.pc = "done"
            /\ Follows(s, "add")
            /\ s.prev.err # "" /\ ~AddressExists(s.prev.before, s.address)
            /\ s.err = "" /\ OnlyListed(s)
            /\ s.resp.status = StatusOK
            /\ AssignedUnannounced(s)


(***************************************************************************)
(* Requests of one kind at the same time: every worker serves at most one  *)
(* request, all to add or all to delete the same address on the same       *)
(* interface; the address is absent at the start of the additions and      *)
(* present at the start of the deletions.                                  *)
(***************************************************************************)
SharedText == Text("v6", 50, 2)
SharedAddress == ParseAddress(SharedText).addr

\* the request every client sends
SharedRequest(path) ==
    [cert |-> "valid", path |-> path, method |-> "POST", ctype |-> "application/json",
     body |-> [kind |-> "json", address |-> SharedText, interface_name |-> E0]]

InitConverge ==
    /\ policies \in PolicyConfigs
    /\ links = HostLinks
    /\ sent = {}
    /\ slot = [w \in Workers |-> IdleSlot]
    /\ \E path \in {"/add", "/delete"} :
          /\ probe = [pc |-> "concurrent", path |-> path]
          /\ addrs = [n \in {E0, E01} |->
                        IF path = "/delete" /\ n = E0 THEN {SharedAddress} ELSE {}]

NextConverge ==
    \E w \in Workers :
        \/ Serve(w, SharedRequest(probe.path))
        \/ AddExists(w)
        \/ AddMutate(w)
        \/ AddAdvertise(w)
        \/ DeleteExists(w)
        \/ DeleteMutate(w)

SpecConverge == InitConverge /\ [][NextConverge]_vars

\* every request that was sent has been answered
AllFinished ==
    /\ \A w \in Workers : slot[w].pc \in {"idle", "done"}
    /\ \E w \in Workers : slot[w].pc = "done"

\* the requests were permitted, and no OS call failed for another reason
\* than the address being there already (or gone already)
OnlyRaceFailures ==
    \A w \in Workers :
        slot[w].pc = "done" =>
            /\ slot[w].action \in {"add", "delete"}
            /\ slot[w].existsErr = ""
            /\ slot[w].err \in {"", "file exists", "cannot assign requested address"}

\* the workers whose request added the address and announced it
Adders ==
    {w \in Workers :
        /\ slot[w].pc = "done"
        /\ slot[w].err = ""
        /\ Made(slot[w], {"AddrAdd"})
        /\ Made(slot[w], {"Sendto"})}

\* the entries of the interface that are the shared address
Assigned == {a \in addrs[E0] : AddrEqual(a, SharedAddress)}

\* C32: when requests to add the same permitted address to the same
\* interface run at the same time, no request deletes, and OS calls fail
\* only because the address is there already, then once all have finished
\* the address is on the interface exactly once, exactly one request made
\* the successful OS add and the announcement, and the frame was sent; when
\* requests to delete run at the same time and no request adds, the address
\* is absent once all have finished.
C32_Convergence ==
    (probe.pc = "concurrent" /\ AllFinished /\ OnlyRaceFailures) =>
        /\ probe.path = "/add" =>
              /\ Cardinality(Assigned) = 1
              /\ Cardinality(Adders) = 1
              /\ \A w \in Workers :
                    (slot[w].pc = "done" /\ w \notin Adders) =>
                        ~Made(slot[w], AnnounceCalls)
              /\ Frame(CHOOSE l \in links : l.Name = E0, SharedAddress) \in sent
        /\ probe.path = "/delete" =>
              /\ Assigned = {}
              /\ sent = {}

\* C32 witness: two requests to add ran at the same time, both found the
\* address absent, one added and announced it and the other was refused by
\* the kernel; the address is on the interface once
C32_Witness ==
    /\ probe.pc = "concurrent" /\ probe.path = "/add"
    /\ AllFinished /\ OnlyRaceFailures
    /\ \A w \in Workers : slot[w].pc = "done" /\ Made(slot[w], {"AddrAdd"})
    /\ \E w \in Workers : slot[w].err = "file exists"
    /\ Cardinality(Adders) = 1
    /\ Cardinality(Assigned) = 1

\* two requests to delete ran at the same time, both found the address
\* present, and the address is gone
C32_DeletesConverge ==
    /\ probe.pc = "concurrent" /\ probe.path = "/delete"
    /\ AllFinished /\ OnlyRaceFailures
    /\ \A w \in Workers : slot[w].pc = "done" /\ Made(slot[w], {"AddrDel"})
    /\ Assigned = {}


(***************************************************************************)
(* Two hosts side by side: the same configuration and the same request on  *)
(* hosts that differ in the interfaces they have and in the addresses      *)
(* these carry.  The handler runs on each up to the call of AddAddress or  *)
(* DeleteAddress.                                                          *)
(***************************************************************************)
\* a host: its interfaces, each of them bare or carrying the shared address
Hosts ==
    { [links |-> lks, addrs |-> [n \in {E0, E01} |-> held]] :
        lks \in SUBSET HostLinks, held \in {{}, {SharedAddress}} }

InitHosts ==
    /\ policies \in PolicyConfigs
    /\ links = HostLinks
    /\ addrs \in InitialAddrs
    /\ sent = {}
    /\ slot = [w \in Workers |-> IdleSlot]
    /\ probe \in [pc : {"request"}, req : Requests,
                  hosts : {p \in Hosts \X Hosts :
                             p[1].addrs[E0] = {} /\ p[2].addrs[E0] # {}},
                  answers : {<<>>}]

\* the handler RunServer installs serves the request on either host
ServeOnHosts ==
    /\ probe.pc = "request"
    /\ probe' = [probe EXCEPT
                   !.pc = "answered",
                   !.answers = [i \in 1..2 |->
                                   Handler(policies, probe.hosts[i].links, probe.req)]]
    /\ UNCHANGED <<policies, links, addrs, sent, slot>>

NextHosts == ServeOnHosts

SpecHosts == InitHosts /\ [][NextHosts]_vars

\* the request does not pass the checks before the interface is resolved:
\* authentication or one of the checks 1-9 of handleRequest refuses it
RefusedBeforeLink(r) ==
    /\ r.path # "/healthz"
    /\ \/ r.cert # "valid"
       \/ FirstFailing(r) \in 1..(Len(CheckOrder) - 1)

\* C33: the answer to a request that one of the checks 1-9 refuses (no
\* policy permits it, or an earlier check fails) is the same on two hosts
\* that differ in their interfaces and addresses: same status, same body,
\* and on neither host the interface was resolved or AddAddress or
\* DeleteAddress called.
C33_AnswerIndependentOfHost ==
    (probe.pc = "answered" /\ RefusedBeforeLink(probe.req)) =>
        /\ probe.answers[1].resp = probe.answers[2].resp
        /\ probe.answers[1].resp # NoResp
        /\ \A i \in 1..2 :
              /\ ~probe.answers[i].call
              /\ \A k \in 1..Len(probe.answers[i].trace) :
                    probe.answers[i].trace[k] # "link"

\* C33 witness: a request that no policy permits names an interface that
\* one host has and the other has not, and both hosts answered 403
C33_Witness ==
    /\ probe.pc = "answered"
    /\ probe.req.cert = "valid"
    /\ FirstFailing(probe.req) = Len(CheckOrder) - 1
    /\ LinkByName(probe.hosts[1].links, probe.req.body.interface_name).err = ""
    /\ LinkByName(probe.hosts[2].links, probe.req.body.interface_name).err # ""
    /\ probe.answers[1].resp.status = StatusForbidden
    /\ probe.answers[2].resp.status = StatusForbidden

\* a request that passes the checks 1-9 is answered differently on the two
\* hosts: the dependence on the host starts after the policy check
C33_PermittedDepends ==
    /\ probe.pc = "answered"
    /\ ~RefusedBeforeLink(probe.req)
    /\ probe.answers[1].call
    /\ probe.answers[2].resp.status = StatusInternalServerError


(***************************************************************************)
(* Requests for one address on an interface of a host whose interfaces     *)
(* carry addresses of their own when the process starts: the address       *)
(* itself, the same IP with another prefix length, another IP.             *)
(***************************************************************************)
\* another IP with the prefix length of the shared address, and the IP of
\* the shared address with a longer prefix
SamePrefixOtherIP == ParseAddress(Text("v6", 20, 2)).addr
SameIPOtherPrefix == ParseAddress(Text("v6", 50, 3)).addr

CarriedAddresses == SUBSET {SharedAddress, SameIPOtherPrefix, SamePrefixOtherIP}

InitExists ==
    /\ policies = << Policy(Text("v6", 48, 2), DotStar),
                     Policy(Text("v6", 16, 2), DotStar) >>
    /\ links = HostLinks
    /\ addrs \in [{E0, E01} -> CarriedAddresses]
    /\ sent = {}
    /\ slot = [w \in Workers |-> IdleSlot]
    /\ probe = [pc |-> "exists"]

NextExists ==
    \/ \E path \in {"/add", "/delete"} : Serve("w1", SharedRequest(path))
    \/ HandlerReturns("w1")
    \/ AddExists("w1")
    \/ AddMutate("w1")
    \/ AddAdvertise("w1")
    \/ DeleteExists("w1")
    \/ DeleteMutate("w1")

SpecExists == InitExists /\ [][NextExists]_vars

\* the list holds an entry with the IP and the prefix length of the address
HasEntry(list, address) ==
    \E a \in list :
        /\ a.IP.fam = address.IP.fam
        /\ a.IP.val = address.IP.val
        /\ MaskSize(a.Mask) = MaskSize(address.Mask)

\* C34: when the listing succeeds, AddressExists is true exactly when the
\* list of that same link holds an entry with the IP and the prefix length
\* of the address; the same IP with another prefix length, or the address on
\* another link, does not count.  When it is false Add goes on to the OS
\* add and Delete returns success without an OS call and without a change;
\* when it is true Add returns after the listing and Delete goes on to the
\* OS delete.
C34_ExistsIsSameIPAndPrefixOnLink ==
    [][LET s == slot["w1"]
           t == slot'["w1"]
           held == HasEntry(addrs[s.link.Name], s.address)
       IN  /\ (s.pc \in {"add:exists", "del:exists"} /\ t # s /\ t.existsErr = "") =>
                 /\ t.addressExists <=> held
                 /\ s.pc = "add:exists" /\ ~held => t.pc = "add:mutate"
                 /\ s.pc = "add:exists" /\ held =>
                       t.pc = "done" /\ OnlyListed(t) /\ t.err = ""
                 /\ s.pc = "del:exists" /\ held => t.pc = "del:mutate"
                 /\ s.pc = "del:exists" /\ ~held =>
                       /\ t.pc = "done" /\ OnlyListed(t) /\ t.err = ""
                       /\ t.resp = Fprintf("Successfully deleted address from interface\n")
                       /\ addrs' = addrs
           /\ (s.pc = "add:mutate" /\ t # s) => Made(t, {"AddrAdd"})
      ]_vars

\* C34 witness: the interface carries the same IP with another prefix
\* length and the other interface carries the address itself; the Delete
\* found the address absent and returned success, and nothing changed
C34_Witness ==
    LET s == slot["w1"]
    IN  /\ probe.pc = "exists"
        /\ Calls(s, "delete") /\ s.pc = "done"
        /\ s.link.Name = E0
        /\ SameIPOtherPrefix \in addrs[E0] /\ SharedAddress \notin addrs[E0]
        /\ SharedAddress \in addrs[E01]
        /\ ~s.addressExists /\ s.existsErr = ""
        /\ s.err = "" /\ OnlyListed(s)
        /\ addrs[E0] = s.before

\* the same for Add: the address was found absent beside the same IP with
\* another prefix length, and the OS add was called
C34_AddProceeds ==
    LET s == slot["w1"]
    IN  /\ probe.pc = "exists"
        /\ Calls(s, "add") /\ s.pc = "done"
        /\ SameIPOtherPrefix \in s.before /\ SharedAddress \notin s.before
        /\ SharedAddress \in addrs[E01]
        /\ ~s.addressExists /\ Made(s, {"AddrAdd"})

====
